---- MODULE Spec2Model ----
(***************************************************************************)
(* Model of the tool-execution gateway of cursor_mcp_server.py: workspace  *)
(* sandbox, fixed-window rate limiters, audit log, command whitelist,      *)
(* command watcher, context tracker and the tool handlers built on them.   *)
(* Strings are TLA+ strings; a character is a string of length one.        *)
(* Paths are pathlib "parts" tuples, e.g. <<"/", "ws", "src", "a.py">>.    *)
(***************************************************************************)
EXTENDS Integers, Sequences, FiniteSets, TLC

\* ------------------------------------------------------------------------
\* Strings
\* ------------------------------------------------------------------------
CharAt(s, i) == SubSeq(s, i, i)

Chars(s) == {CharAt(s, i) : i \in 1..Len(s)}

StartsWith(s, p) == Len(p) <= Len(s) /\ SubSeq(s, 1, Len(p)) = p

\* s[a:b] of Python for 0 <= a, 0 <= b
Slice(s, a, b) == SubSeq(s, a + 1, IF b > Len(s) THEN Len(s) ELSE b)

Contains(s, p) == \E i \in 0..(Len(s) - Len(p)) : SubSeq(s, i + 1, i + Len(p)) = p

Min(a, b) == IF a < b THEN a ELSE b
Max(a, b) == IF a > b THEN a ELSE b

RECURSIVE JoinStr(_, _)
JoinStr(sep, ss) ==
    IF ss = <<>> THEN ""
    ELSE IF Len(ss) = 1 THEN ss[1]
    ELSE ss[1] \o sep \o JoinStr(sep, Tail(ss))

Letters == {"a","b","c","d","e","f","g","h","i","j","k","l","m","n","o","p","q",
            "r","s","t","u","v","w","x","y","z","A","B","C","D","E","F","G","H",
            "I","J","K","L","M","N","O","P","Q","R","S","T","U","V","W","X","Y","Z"}
Digits == {"0","1","2","3","4","5","6","7","8","9"}

\* ------------------------------------------------------------------------
\* Regular expressions (the subset of Python's re used by the program).
\* A pattern is a tree of records; Ends(re, s, I) is the set of positions
\* at which a match of re that starts at a position of I can end.
\* ------------------------------------------------------------------------
Lit(str)  == [t |-> "lit",  s |-> str, c |-> {},  r |-> <<>>]
Cls(set)  == [t |-> "cls",  s |-> "",  c |-> set, r |-> <<>>]
AnyChar   == [t |-> "any",  s |-> "",  c |-> {},  r |-> <<>>]
Bol       == [t |-> "bol",  s |-> "",  c |-> {},  r |-> <<>>]
Eol       == [t |-> "eol",  s |-> "",  c |-> {},  r |-> <<>>]
Cat(rs)   == [t |-> "cat",  s |-> "",  c |-> {},  r |-> rs]
Alt(rs)   == [t |-> "alt",  s |-> "",  c |-> {},  r |-> rs]
Star(x)   == [t |-> "star", s |-> "",  c |-> {},  r |-> <<x>>]
Plus(x)   == [t |-> "plus", s |-> "",  c |-> {},  r |-> <<x>>]
Opt(x)    == [t |-> "opt",  s |-> "",  c |-> {},  r |-> <<x>>]

RECURSIVE Ends(_, _, _)
RECURSIVE StarEnds(_, _, _)
RECURSIVE CatEnds(_, _, _)

StarEnds(re, s, I) ==
    LET J == I \cup Ends(re, s, I)
    IN  IF J = I THEN I ELSE StarEnds(re, s, J)

CatEnds(rs, s, I) ==
    IF rs = <<>> \/ I = {} THEN I
    ELSE CatEnds(Tail(rs), s, Ends(Head(rs), s, I))

Ends(re, s, I) ==
    CASE re.t = "lit"  -> {i + Len(re.s) : i \in {j \in I : j + Len(re.s) <= Len(s)
                                         /\ SubSeq(s, j + 1, j + Len(re.s)) = re.s}}
      [] re.t = "cls"  -> {i + 1 : i \in {j \in I : j < Len(s) /\ CharAt(s, j + 1) \in re.c}}
      [] re.t = "any"  -> {i + 1 : i \in {j \in I : j < Len(s)}}
      [] re.t = "bol"  -> {i \in I : i = 0}
      \* $ without MULTILINE: at the end, or just before a final line break
      [] re.t = "eol"  -> {i \in I : i = Len(s) \/ (i = Len(s) - 1 /\ CharAt(s, Len(s)) = "\n")}
      [] re.t = "cat"  -> CatEnds(re.r, s, I)
      [] re.t = "alt"  -> UNION {Ends(re.r[k], s, I) : k \in 1..Len(re.r)}
      [] re.t = "star" -> StarEnds(re.r[1], s, I)
      [] re.t = "plus" -> StarEnds(re.r[1], s, Ends(re.r[1], s, I))
      [] re.t = "opt"  -> I \cup Ends(re.r[1], s, I)

\* Pattern.fullmatch(s)
fullmatch(re, s) == Len(s) \in Ends(re, s, {0})

\* re.search(pat, s) without MULTILINE
search(re, s) == Ends(re, s, 0..Len(s)) # {}

\* \s, \w, \d on the characters the model uses
WS    == Cls({" ", "\t", "\n", "\r", "\f"})
Word  == Letters \cup Digits \cup {"_"}
Digit == Cls(Digits)

\* ------------------------------------------------------------------------
\* Command whitelist (ALLOWED_COMMANDS) and is_allowed_command
\* ------------------------------------------------------------------------
SP == Plus(WS)

\* [\w\-\.,]+   [\w/\.\-]+   [\w\-]+
KExpr   == Plus(Cls(Word \cup {"-", ".", ","}))
PathArg == Plus(Cls(Word \cup {"/", ".", "-"}))
TagArg  == Plus(Cls(Word \cup {"-"}))

\* (?:\s+(?:-q|-x|-s|-k\s+[\w\-\.,]+|-m\s+[\w\-\.,]+|--maxfail=\d+|[\w/\.\-]+))*
PytestArgs ==
    Star(Cat(<<SP, Alt(<<Lit("-q"), Lit("-x"), Lit("-s"),
                         Cat(<<Lit("-k"), SP, KExpr>>),
                         Cat(<<Lit("-m"), SP, KExpr>>),
                         Cat(<<Lit("--maxfail="), Plus(Digit)>>),
                         PathArg>>)>>))

PathArgs == Star(Cat(<<SP, PathArg>>))

RunTest(pm) == Cat(<<Bol, Lit(pm), SP, Lit("run"), SP, Lit("test"),
                     Opt(Cat(<<Lit(":"), TagArg>>)), Eol>>)

ALLOWED_COMMANDS == <<
    Cat(<<Bol, Lit("git"), SP, Lit("status"), Eol>>),
    Cat(<<Bol, Lit("git"), SP, Lit("diff"),
          Opt(Cat(<<SP, Lit("--"), Alt(<<Lit("staged"), Lit("cached")>>)>>)), Eol>>),
    Cat(<<Bol, Lit("pytest"), PytestArgs, Eol>>),
    Cat(<<Bol, Lit("python"), Opt(Lit("3")), SP, Lit("-m"), SP, Lit("pytest"), PytestArgs, Eol>>),
    Cat(<<Bol, Lit("python"), Opt(Lit("3")), SP, Lit("--version"), Eol>>),
    Cat(<<Bol, Lit("ruff"), SP, Lit("check"), PathArgs, Eol>>),
    Cat(<<Bol, Lit("black"), SP, Lit("--check"), PathArgs, Eol>>),
    Cat(<<Bol, Lit("mypy"), PathArgs, Eol>>),
    Cat(<<Bol, Lit("node"), SP, Lit("-v"), Eol>>),
    Cat(<<Bol, Alt(<<Lit("npm"), Lit("pnpm"), Lit("yarn")>>), SP, Lit("test"), Eol>>),
    Cat(<<Bol, Lit("eslint"), SP, Plus(Alt(<<PathArg, Lit(".")>>)),
          Opt(Cat(<<SP, Lit("--max-warnings=0")>>)), Eol>> ),
    RunTest("npm"),
    RunTest("yarn"),
    RunTest("pnpm") >>

\* The backquote cannot be written inside a TLA+ string: BQ stands for it.
BQ == "~"

\* _DANGEROUS_CHARS: ; & | > < backquote $
DANGEROUS_CHARS == {";", "&", "|", ">", "<", BQ, "$"}

DangerousSearch(cmd) == Chars(cmd) \cap DANGEROUS_CHARS # {}

RECURSIVE StripDangerous(_)
StripDangerous(cmd) ==
    IF cmd = "" THEN ""
    ELSE IF CharAt(cmd, 1) \in DANGEROUS_CHARS THEN StripDangerous(Tail(cmd))
    ELSE CharAt(cmd, 1) \o StripDangerous(Tail(cmd))

\* is_allowed_command that drops the dangerous characters and matches the
\* rest, where the source rejects the command
is_allowed_command_stripping(cmd) ==
    \E k \in 1..Len(ALLOWED_COMMANDS) : fullmatch(ALLOWED_COMMANDS[k], StripDangerous(cmd))

is_allowed_command(cmd) ==
    IF DangerousSearch(cmd) THEN FALSE
    ELSE \E k \in 1..Len(ALLOWED_COMMANDS) : fullmatch(ALLOWED_COMMANDS[k], cmd)

\* ------------------------------------------------------------------------
\* Paths (pathlib) and the filesystem
\* ------------------------------------------------------------------------
WORKSPACE_DIR == <<"/", "ws">>

RECURSIVE SplitStr(_, _)
\* s.split(sep) for a one-character separator
SplitStr(s, sep) ==
    IF \E i \in 1..Len(s) : CharAt(s, i) = sep
    THEN LET i == CHOOSE k \in 1..Len(s) :
                     CharAt(s, k) = sep /\ \A j \in 1..(k - 1) : CharAt(s, j) # sep
         IN  <<SubSeq(s, 1, i - 1)>> \o SplitStr(SubSeq(s, i + 1, Len(s)), sep)
    ELSE <<s>>

\* Path(s).parts: empty and "." components are dropped, a leading "/" is the root
PathParts(s) ==
    LET names == SelectSeq(SplitStr(s, "/"), LAMBDA n : n # "" /\ n # ".")
    IN  IF StartsWith(s, "/") THEN <<"/">> \o names ELSE names

\* base.joinpath(rel): an absolute argument replaces the base
joinpath(base, parts) ==
    IF parts # <<>> /\ parts[1] = "/" THEN parts ELSE base \o parts

IsPrefix(a, b) == Len(a) <= Len(b) /\ SubSeq(b, 1, Len(a)) = a

Parent(p) == IF Len(p) <= 1 THEN p ELSE SubSeq(p, 1, Len(p) - 1)

\* target.relative_to(base), defined when IsPrefix(base, target)
relative_to(target, base) == SubSeq(target, Len(base) + 1, Len(target))

as_posix(rel) == IF rel = <<>> THEN "." ELSE JoinStr("/", rel)

Dir        == [kind |-> "dir",  content |-> "", target |-> <<>>]
File(text) == [kind |-> "file", content |-> text, target |-> <<>>]
Link(to)   == [kind |-> "link", content |-> "", target |-> to]

RECURSIVE _joinrealpath(_, _, _, _)
\* posixpath._joinrealpath, non-strict: walk the components of rest from the
\* resolved prefix path; ".." is applied to the resolved prefix, a symlink
\* is replaced by its resolved target, a missing component is kept as
\* written. seen holds the symlinks being resolved: meeting one of them
\* again is a symlink loop, and the walk stops with ok = FALSE and the rest
\* of the path left as written.
_joinrealpath(F, path, rest, seen) ==
    IF rest = <<>> THEN [ok |-> TRUE, path |-> path]
    ELSE LET name == Head(rest)
             more == Tail(rest)
         IN  IF name = "/" THEN _joinrealpath(F, <<"/">>, more, seen)
             ELSE IF name = ".." THEN _joinrealpath(F, Parent(path), more, seen)
             ELSE LET newpath == Append(path, name)
                  IN  IF ~(newpath \in DOMAIN F /\ F[newpath].kind = "link")
                      THEN _joinrealpath(F, newpath, more, seen)
                      ELSE IF newpath \in seen
                      THEN [ok |-> FALSE, path |-> newpath \o more]
                      ELSE LET t == _joinrealpath(F, path, F[newpath].target, seen \cup {newpath})
                           IN  IF ~t.ok THEN [ok |-> FALSE, path |-> t.path \o more]
                               ELSE _joinrealpath(F, t.path, more, seen)

RECURSIVE normpath(_, _)
\* os.path.abspath of an absolute path: ".." is removed lexically
normpath(done, rest) ==
    IF rest = <<>> THEN done
    ELSE IF Head(rest) = ".." THEN normpath(Parent(done), Tail(rest))
    ELSE normpath(Append(done, Head(rest)), Tail(rest))

\* os.path.realpath(p, strict=False) of an absolute path
realpath(F, p) ==
    LET r == _joinrealpath(F, <<"/">>, Tail(p), {})
    IN  [ok |-> r.ok, path |-> normpath(<<"/">>, Tail(r.path))]

\* stat(p) fails with ELOOP: following p meets a symlink loop
eloop(F, p) == ~_joinrealpath(F, <<"/">>, Tail(p), {}).ok

\* Path.resolve() of an absolute path (pathlib of Python 3.11): after a
\* symlink loop in realpath the result is stat()ed, and ELOOP there is
\* raised as RuntimeError("Symlink loop from ...")
resolve(F, p) ==
    LET r == realpath(F, p)
    IN  IF ~r.ok /\ eloop(F, r.path)
        THEN [exc |-> "RuntimeError", path |-> r.path]
        ELSE [exc |-> "none", path |-> r.path]

\* stat() follows symlinks: the node a path leads to, if any
follow(F, p)  == realpath(F, p).path
HasNode(F, p) == realpath(F, p).ok /\ follow(F, p) \in DOMAIN F
NodeAt(F, p)  == F[follow(F, p)]
exists(F, p)  == HasNode(F, p)
is_file(F, p) == HasNode(F, p) /\ NodeAt(F, p).kind = "file"
is_dir(F, p)  == HasNode(F, p) /\ NodeAt(F, p).kind = "dir"

\* any exception of resolve or relative_to is caught: False
_is_relative_to(F, base, target) ==
    /\ resolve(F, target).exc = "none"
    /\ resolve(F, base).exc = "none"
    /\ IsPrefix(resolve(F, base).path, resolve(F, target).path)

in_workspace(F, path) == _is_relative_to(F, WORKSPACE_DIR, path)

\* safe_join without resolve(): the joined path is normalised and compared
\* with the workspace root as written
safe_join_lexical(F, s) ==
    LET p == normpath(<<"/">>, Tail(joinpath(WORKSPACE_DIR, PathParts(s))))
    IN  IF ~IsPrefix(WORKSPACE_DIR, p)
        THEN [ok |-> FALSE, exc |-> "PermissionError", err |-> "Path escapes workspace", path |-> p]
        ELSE [ok |-> TRUE, exc |-> "none", err |-> "", path |-> p]

\* safe_join: the path returned (ok), or the exception raised
safe_join(F, s) ==
    LET r == resolve(F, joinpath(WORKSPACE_DIR, PathParts(s)))
    IN  IF r.exc # "none"
        THEN [ok |-> FALSE, exc |-> r.exc, err |-> "Symlink loop", path |-> r.path]
        ELSE IF ~in_workspace(F, r.path)
        THEN [ok |-> FALSE, exc |-> "PermissionError", err |-> "Path escapes workspace", path |-> r.path]
        ELSE [ok |-> TRUE, exc |-> "none", err |-> "", path |-> r.path]

\* ------------------------------------------------------------------------
\* Read denylist (fnmatch)
\* ------------------------------------------------------------------------
READ_DENYLIST == <<
    "**/.git/**", "**/.svn/**", "**/.hg/**", "**/node_modules/**",
    "**/.venv/**", "**/venv/**", "**/.tox/**", "**/.cache/**",
    "**/.env*", "**/*id_rsa*", "**/*id_dsa*", "**/*.pem", "**/*.key",
    "**/*.p12", "**/*.pfx", "**/*_cert*", "**/*.kdbx",
    "**/.aws/**", "**/.azure/**", "**/.gcp/**", "**/.ssh/**",
    "**/.npmrc", "**/.pypirc" >>

\* fnmatch.translate: * becomes .* and ? becomes . (DOTALL), any other
\* character of these patterns is literal; the whole name must match
translate(pat) ==
    Cat([i \in 1..Len(pat) |->
            IF CharAt(pat, i) = "*" THEN Star(AnyChar)
            ELSE IF CharAt(pat, i) = "?" THEN AnyChar
            ELSE Lit(CharAt(pat, i))])

fnmatch(name, pat) == fullmatch(translate(pat), name)

_denylisted(rel_posix) ==
    \E k \in 1..Len(READ_DENYLIST) : fnmatch(rel_posix, READ_DENYLIST[k])

\* ------------------------------------------------------------------------
\* Configuration (scaled for model checking)
\* ------------------------------------------------------------------------
\* RATE_LIMITS: (max_ops, window_seconds) of the read, write and command class
ReadMaxOps  == 2
WriteMaxOps == 2
CmdMaxOps   == 1
RateWindow  == 3
RATE_LIMITS == [read    |-> <<ReadMaxOps, RateWindow>>,
                write   |-> <<WriteMaxOps, RateWindow>>,
                command |-> <<CmdMaxOps, RateWindow>>]
Classes == {"read", "write", "command"}

AUDIT_LOG_PATH     == WORKSPACE_DIR \o <<".mcp_audit.log">>
MAX_FILE_BYTES     == 200
MAX_AUDIT_BYTES    == 100
MAX_AUDIT_BACKUPS  == 3
CONTEXT_MAX_CHARS  == 100
\* CONTEXT_SUMMARY_THRESHOLD = 0.85, as a percentage
CONTEXT_SUMMARY_THRESHOLD_PCT == 85
CONTEXT_SUMMARY_ENABLED == TRUE

\* ------------------------------------------------------------------------
\* FixedWindowRateLimiter.allow: the events kept, and the verdict
\* ------------------------------------------------------------------------
Pruned(ev, t, window) == SelectSeq(ev, LAMBDA e : t - e < window)

\* allow with the quota test len(events) > max_ops
allow_off_by_one(ev, t, max_ops, window) ==
    LET kept == Pruned(ev, t, window)
    IN  IF Len(kept) > max_ops
        THEN [ok |-> FALSE, events |-> kept]
        ELSE [ok |-> TRUE,  events |-> Append(kept, t)]

\* allow that records the time of a denied call too
allow_recording_denied(ev, t, max_ops, window) ==
    LET kept == Pruned(ev, t, window)
    IN  IF Len(kept) >= max_ops
        THEN [ok |-> FALSE, events |-> Append(kept, t)]
        ELSE [ok |-> TRUE,  events |-> Append(kept, t)]

\* allow that takes an event for aged-out one second before the window ends
allow_pruning_early(ev, t, max_ops, window) ==
    LET kept == Pruned(ev, t, window - 1)
    IN  IF Len(kept) >= max_ops
        THEN [ok |-> FALSE, events |-> kept]
        ELSE [ok |-> TRUE,  events |-> Append(kept, t)]

allow(ev, t, max_ops, window) ==
    LET kept == Pruned(ev, t, window)
    IN  IF Len(kept) >= max_ops
        THEN [ok |-> FALSE, events |-> kept]
        ELSE [ok |-> TRUE,  events |-> Append(kept, t)]

\* search_code asking the limiter of the writes
LimiterOf_search_on_write(op) ==
    CASE op = "read_file"   -> "read"
      [] op = "list_files"  -> "read"
      [] op = "search_code" -> "write"
      [] op = "write_file"  -> "write"
      [] op = "run_command" -> "command"

\* the limiter each tool handler asks: rate_read, rate_write or rate_cmd
LimiterOf(op) ==
    CASE op = "read_file"   -> "read"
      [] op = "list_files"  -> "read"
      [] op = "search_code" -> "read"
      [] op = "write_file"  -> "write"
      [] op = "run_command" -> "command"

\* rate_X.allow() of the limiter of op at time t
RateCheck(ev, op, t) ==
    allow(ev[LimiterOf(op)], t, RATE_LIMITS[LimiterOf(op)][1], RATE_LIMITS[LimiterOf(op)][2])

\* ------------------------------------------------------------------------
\* Number formatting
\* ------------------------------------------------------------------------
\* f"{n:,}"
FmtComma(n) ==
    IF n < 1000 THEN ToString(n)
    ELSE LET r == n % 1000
         IN  ToString(n \div 1000) \o "," \o
             (IF r < 10 THEN "00" ELSE IF r < 100 THEN "0" ELSE "") \o ToString(r)

\* f"{num/den*100:.1f}": one decimal, rounded to nearest
FmtPct1(num, den) ==
    LET tenths == (num * 2000 + den) \div (2 * den)
    IN  ToString(tenths \div 10) \o "." \o ToString(tenths % 10)

\* repr of the float num/den*100, exact to the first decimal
ReprPct(num, den) ==
    LET tenths == (num * 1000) \div den
    IN  ToString(tenths \div 10) \o "." \o ToString(tenths % 10)

\* ------------------------------------------------------------------------
\* ContextTracker and _summarize_text
\* ------------------------------------------------------------------------
should_summarize(chars) ==
    CONTEXT_SUMMARY_ENABLED /\ chars * 100 >= CONTEXT_SUMMARY_THRESHOLD_PCT * CONTEXT_MAX_CHARS

LineBreaks == {"\n", "\r", "\f"}

RECURSIVE splitlines(_)
\* str.splitlines(): no empty last line, "\r\n" is one line break
splitlines(s) ==
    IF s = "" THEN <<>>
    ELSE IF \E i \in 1..Len(s) : CharAt(s, i) \in LineBreaks
    THEN LET i == CHOOSE k \in 1..Len(s) :
                     CharAt(s, k) \in LineBreaks /\ \A j \in 1..(k - 1) : CharAt(s, j) \notin LineBreaks
             w == IF CharAt(s, i) = "\r" /\ i < Len(s) /\ CharAt(s, i + 1) = "\n" THEN 2 ELSE 1
         IN  <<SubSeq(s, 1, i - 1)>> \o splitlines(SubSeq(s, i + w, Len(s)))
    ELSE <<s>>

\* important_patterns of _summarize_text
ImportantPatterns == <<
    Cat(<<Bol, Alt(<<Lit("def"), Lit("class"), Lit("async def"), Lit("@"), Lit("import"),
                     Lit("from"), Lit("# TODO"), Lit("# FIXME"), Lit("# NOTE")>>)>>),
    Cat(<<Bol, Star(WS), Alt(<<Lit("if"), Lit("for"), Lit("while"), Lit("try"), Lit("except"),
                               Lit("with"), Lit("return"), Lit("yield"), Lit("raise")>>)>>) >>

IsImportant(line) == \E k \in 1..Len(ImportantPatterns) : search(ImportantPatterns[k], line)

\* seq[::step]
Stride(seq, step) == [k \in 1..((Len(seq) + step - 1) \div step) |-> seq[(k - 1) * step + 1]]

\* the summary _summarize_text builds from the lines of the text and the
\* important lines of their middle; err stands for the ZeroDivisionError of
\* len(important_lines) // max_middle_lines
SummaryOf(lines, important, max_chars) ==
    LET total_lines == Len(lines)
        keep_start  == total_lines \div 5
        keep_end    == (total_lines * 4) \div 5
        kept_start  == JoinStr("\n", SubSeq(lines, 1, keep_start))
        kept_end    == JoinStr("\n", SubSeq(lines, keep_end + 1, total_lines))
        middle_len  == keep_end - keep_start
        max_middle_lines == max_chars \div 80
    IN  IF Len(important) > max_middle_lines /\ max_middle_lines = 0
        THEN [err |-> TRUE, text |-> ""]
        ELSE LET sampled == IF Len(important) > max_middle_lines
                            THEN Stride(important, Max(1, Len(important) \div max_middle_lines))
                            ELSE important
                 joined  == JoinStr("\n", sampled)
                 middle_summary == IF Len(joined) * 5 > max_chars * 3
                                   THEN Slice(joined, 0, (max_chars * 3) \div 5) ELSE joined
                 summary == kept_start \o "\n\n[... " \o ToString(middle_len)
                            \o " lines summarized to " \o ToString(Len(sampled))
                            \o " key lines ...]\n\n" \o middle_summary
                            \o "\n\n[... " \o ToString(middle_len)
                            \o " lines summarized ...]\n\n" \o kept_end
             IN  IF Len(summary) > max_chars
                 THEN [err |-> FALSE, text |-> Slice(summary, 0, max_chars) \o "\n[... truncated ...]"]
                 ELSE [err |-> FALSE, text |-> summary]

\* lines[keep_start:keep_end], the lines that match an important pattern
ImportantLines(lines) ==
    SelectSeq(SubSeq(lines, Len(lines) \div 5 + 1, (Len(lines) * 4) \div 5), IsImportant)

SummaryOfLines(lines, max_chars) == SummaryOf(lines, ImportantLines(lines), max_chars)

\* _summarize_text(text, max_chars)
_summarize_text(text, max_chars) ==
    IF Len(text) <= max_chars THEN [err |-> FALSE, text |-> text]
    ELSE SummaryOfLines(splitlines(text), max_chars)

\* default max_chars of _summarize_text: int(CONTEXT_MAX_CHARS * 0.3)
SummaryMaxChars == (CONTEXT_MAX_CHARS * 3) \div 10

\* ------------------------------------------------------------------------
\* Filesystem updates
\* ------------------------------------------------------------------------
Put(F, p, node) == [q \in (DOMAIN F) \cup {p} |-> IF q = p THEN node ELSE F[q]]

Remove(F, p) == [q \in (DOMAIN F) \ {p} |-> F[q]]

\* os.replace(src, dst) of an existing entry
Rename(F, src, dst) == Remove(Put(F, dst, F[src]), src)

\* open(p, "a") / open(p, "w") then write: ok = FALSE stands for the OSError
\* raised when p leads to a directory or its directory is missing
OpenWrite(F, p, text, appending) ==
    LET t == follow(F, p)
    IN  IF t \in DOMAIN F
        THEN IF F[t].kind = "file"
             THEN [ok |-> TRUE,
                   fs |-> Put(F, t, File(IF appending THEN F[t].content \o text ELSE text))]
             ELSE [ok |-> FALSE, fs |-> F]
        ELSE IF is_dir(F, Parent(t))
             THEN [ok |-> TRUE, fs |-> Put(F, t, File(text))]
             ELSE [ok |-> FALSE, fs |-> F]

RECURSIVE mkdir_parents(_, _)
\* Path.mkdir(parents=True): create the missing directories down to p
mkdir_parents(F, p) ==
    IF p \in DOMAIN F \/ Len(p) <= 1 THEN F
    ELSE Put(mkdir_parents(F, Parent(p)), p, Dir)

\* an ancestor of p (or p itself) that exists and is not a directory
BlockedBy(F, p) == \E k \in 1..Len(p) : SubSeq(p, 1, k) \in DOMAIN F /\ F[SubSeq(p, 1, k)].kind # "dir"

\* p.mkdir(parents=True, exist_ok=exist_ok) for a resolved path p
mkdir(F, p, exist_ok) ==
    IF p \in DOMAIN F
    THEN IF exist_ok /\ F[p].kind = "dir"
         THEN [exc |-> "none", fs |-> F]
         ELSE [exc |-> "FileExistsError", fs |-> F]
    ELSE IF BlockedBy(F, p)
         THEN [exc |-> "NotADirectoryError", fs |-> F]
         ELSE [exc |-> "none", fs |-> mkdir_parents(F, p)]

\* ------------------------------------------------------------------------
\* Audit log
\* ------------------------------------------------------------------------
RECURSIVE JsonEsc(_)
JsonEsc(s) ==
    IF s = "" THEN ""
    ELSE LET c == CharAt(s, 1)
             e == CASE c = "\"" -> "\\\""
                    [] c = "\\" -> "\\\\"
                    [] c = "\n" -> "\\n"
                    [] c = "\r" -> "\\r"
                    [] c = "\t" -> "\\t"
                    [] c = "\f" -> "\\f"
                    [] OTHER   -> c
         IN  e \o JsonEsc(Tail(s))

JsonStr(s)  == "\"" \o JsonEsc(s) \o "\""
JsonBool(b) == IF b THEN "true" ELSE "false"
JsonInt(n)  == ToString(n)

RECURSIVE JsonPairs(_)
JsonPairs(kv) ==
    IF kv = <<>> THEN ""
    ELSE JsonStr(kv[1][1]) \o ": " \o kv[1][2]
         \o (IF Len(kv) > 1 THEN ", " ELSE "") \o JsonPairs(Tail(kv))

JsonObj(kv) == "{" \o JsonPairs(kv) \o "}"

\* AuditEntry(ts, tool, args, ok, meta); args and meta are sequences of
\* <<key, JSON value>>
AuditEntry(ts, tool, args, ok, meta) ==
    [ts |-> ts, tool |-> tool, args |-> args, ok |-> ok, meta |-> meta]

\* json.dumps(asdict(entry)) + "\n"
AuditLine(e) ==
    JsonObj(<< <<"ts", ToString(e.ts) \o ".0">>, <<"tool", JsonStr(e.tool)>>,
               <<"args", JsonObj(e.args)>>, <<"ok", JsonBool(e.ok)>>,
               <<"meta", JsonObj(e.meta)>> >>) \o "\n"

\* AUDIT_LOG_PATH.with_suffix(suffix + ".i")
BackupPath(i) == WORKSPACE_DIR \o <<".mcp_audit.log." \o ToString(i)>>

RotSrc(i) == IF i = 1 THEN AUDIT_LOG_PATH ELSE BackupPath(i - 1)

\* one iteration of the rotation loop: unlink dst, then replace src -> dst
RotateStep(F, i) ==
    IF exists(F, RotSrc(i))
    THEN LET G == IF BackupPath(i) \in DOMAIN F THEN Remove(F, BackupPath(i)) ELSE F
         IN  Rename(G, RotSrc(i), BackupPath(i))
    ELSE F

RECURSIVE RotateFrom(_, _)
RotateFrom(F, i) ==
    IF i = 0 THEN F ELSE CHOOSE r \in {RotateFrom(G, i - 1) : G \in {RotateStep(F, i)}} : TRUE

\* a rotation that does not look at the size of the log
_rotate_audit_always(F) ==
    IF is_file(F, AUDIT_LOG_PATH) THEN RotateFrom(F, MAX_AUDIT_BACKUPS) ELSE F

_rotate_audit_if_needed(F) ==
    IF is_file(F, AUDIT_LOG_PATH) /\ Len(NodeAt(F, AUDIT_LOG_PATH).content) > MAX_AUDIT_BYTES
    THEN RotateFrom(F, MAX_AUDIT_BACKUPS)
    ELSE F

\* write_audit where the rotation goes through or raises at its first rename
\* (rotated FALSE, swallowed by _rotate_audit_if_needed) and the append goes
\* through or raises (written FALSE, swallowed by write_audit): the filesystem
\* after the call, and whether the line was written
\* (G: the filesystem the rotation leaves, line: the line to append)
write_audit_faulty(F, entry, rotated, written) ==
    CHOOSE r \in {IF written THEN OpenWrite(G, AUDIT_LOG_PATH, line, TRUE)
                             ELSE [ok |-> FALSE, fs |-> G] :
                     G \in {IF rotated THEN _rotate_audit_if_needed(F) ELSE F},
                     line \in {AuditLine(entry)}} : TRUE

\* write_audit on a working disk
write_audit(F, entry) == write_audit_faulty(F, entry, TRUE, TRUE)

\* ------------------------------------------------------------------------
\* State
\* ------------------------------------------------------------------------
VARIABLES
    fs,        \* the filesystem: parts tuple -> node
    now,       \* time.time()
    events,    \* events of rate_read, rate_write, rate_cmd
    tracker,   \* _context_tracker: current_chars, summaries
    watcher,   \* _command_watcher: enabled, active_commands, command_history
    inv,       \* run_command invocations: where each coroutine stands
    procs,     \* subprocesses spawned so far
    audited,   \* the entries write_audit has written, in call order
    last,      \* the call that finished last: arguments and outcome
    hist,      \* every call started: tool, time, verdict of its rate check
    calls,     \* number of tool calls started
    budget,    \* number of tool calls the exploration follows
    disk,      \* "ok", or "failing": the rotation or the append of write_audit fails
    probe,     \* the replay of a call on a failing and on a working disk (SpecAudit)
    audit_log, \* app: the rows of table audit_log, in id order
    log_events, \* app: the log_event coroutines in flight
    sys_stderr, \* sys.stderr of the gateway process: "open", or "broken" (flush raises)
    jwks_cache, \* OAuth binding: _JWKS, _JWKS_TS and the _get_jwks coroutines in flight
    metrics    \* OAuth binding: _METRICS and the call_tool coroutines in flight

vars == <<fs, now, events, tracker, watcher, inv, procs, audited, last, hist, calls, budget, disk, probe, audit_log, log_events, sys_stderr, jwks_cache, metrics>>

\* bounds of the exploration
MaxTime  == 4
MaxInv   == 2
MaxTasks == 2

WATCHER_ENABLED == TRUE

\* the workspace of tests/test_tools_core.py, with a nested repository, a
\* file and a directory symlink leading out of the workspace, and a symlink
\* to itself
InitFs ==
    LET W == WORKSPACE_DIR
    IN  (<<"/">> :> Dir) @@ (W :> Dir)
        @@ (W \o <<"README.md">> :> File("Hello Workspace"))
        @@ (W \o <<".env">> :> File("SECRET=1"))
        @@ (W \o <<"src">> :> Dir)
        @@ (W \o <<"src", "a.py">> :> File("print('A')\n# TODO: refactor"))
        @@ (W \o <<".git">> :> Dir)
        @@ (W \o <<".git", "HEAD">> :> File("ref: main"))
        @@ (W \o <<"sub">> :> Dir)
        @@ (W \o <<"sub", ".git">> :> Dir)
        @@ (W \o <<"sub", ".git", "config">> :> File("[core]"))
        @@ (W \o <<"lnk">> :> Link(<<"/", "out", "secret">>))
        @@ (W \o <<"dl">> :> Link(<<"/", "out">>))
        @@ (W \o <<"loop">> :> Link(W \o <<"loop">>))
        @@ (<<"/", "out">> :> Dir)
        @@ (<<"/", "out", "secret">> :> File("TOPSECRET"))

NoCall == [op |-> "none", arg |-> <<>>, exc |-> "none", err |-> "", ret |-> <<>>, abs |-> <<>>,
           traversed |-> FALSE]

IdleInv == [pc |-> "idle"]

NoProbe == [phase |-> "idle"]

\* _JWKS = None and _JWKS_TS = 0, no _get_jwks in flight; downloaded_at and
\* fetches record when the cached document arrived and how many requests
\* were sent to AUTH_JWKS_URL
NoJwks == [JWKS |-> 0, JWKS_TS |-> 0, tasks |-> [t \in 1..2 |-> [pc |-> "idle"]],
           downloaded_at |-> 0, fetches |-> 0]

\* the state after construction, on filesystem F and a disk in condition d
\* a log_event coroutine that is not running
IdleTask == [pc |-> "idle"]

\* _METRICS at import, no call_tool in flight; overlapped counts the calls
\* that ended while another one was suspended
NoMetrics == [tool_calls_total |-> 0, tool_ok_total |-> 0, tool_error_total |-> 0,
              tool_duration_ms_sum |-> 0,
              tasks |-> [t \in 1..MaxTasks |-> IdleTask], overlapped |-> 0]

InitOn(n, F, d) ==
    /\ budget = n
    /\ disk = d
    /\ probe = NoProbe
    /\ fs = F
    /\ now = 0
    /\ events = [c \in Classes |-> <<>>]
    /\ tracker = [current_chars |-> 0, summaries |-> <<>>]
    /\ watcher = [enabled |-> WATCHER_ENABLED, active_commands |-> <<>>, command_history |-> <<>>]
    /\ inv = [i \in 1..MaxInv |-> IdleInv]
    /\ procs = <<>>
    /\ audited = <<>>
    /\ last = NoCall
    /\ hist = <<>>
    /\ calls = 0
    /\ audit_log = <<>>
    /\ log_events = [t \in 1..MaxTasks |-> IdleTask]
    /\ sys_stderr = "open"
    /\ jwks_cache = NoJwks
    /\ metrics = NoMetrics

InitWith(n) == InitOn(n, InitFs, "ok")

\* ------------------------------------------------------------------------
\* Steps shared by the tool handlers
\* ------------------------------------------------------------------------
\* abs: the path safe_join returned to the handler, <<>> if it returned none;
\* traversed: the handler reached its rglob loop over the workspace
Outcome(op, arg, exc, err, ret, abs) ==
    [op |-> op, arg |-> arg, exc |-> exc, err |-> err, ret |-> ret, abs |-> abs,
     traversed |-> FALSE]

\* the outcome of a handler that walked the tree
Traversed(outcome) == [outcome EXCEPT !.traversed = TRUE]

\* usage of the context budget, as json.dumps prints the float
context_pct(chars) == ReprPct(chars, CONTEXT_MAX_CHARS)

\* what write_audit(entry) can leave behind on filesystem F
AuditWrites(F, entry) ==
    {write_audit_faulty(F, entry, rw[1], rw[2]) :
        rw \in IF disk = "ok" THEN {<<TRUE, TRUE>>}
               ELSE {<<FALSE, FALSE>>, <<TRUE, FALSE>>, <<FALSE, TRUE>>}}

\* the state after write_audit(entry) on filesystem F
Audit(F, entry) ==
    \E w \in AuditWrites(F, entry) :
        /\ fs' = w.fs
        /\ audited' = IF w.ok THEN Append(audited, entry) ELSE audited

PathStr(p) == "/" \o JoinStr("/", Tail(p))

SUMMARIES_MAXLEN == 10

\* deque(maxlen=n).append
DequeAppend(q, x, n) == IF Len(q) >= n THEN Append(Tail(q), x) ELSE Append(q, x)

\* (the arrow of the header is written ">", one character as in the source)
\* the branch of _auto_summarize_if_needed that summarizes: sm is the
\* outcome of _summarize_text(content); exc for its ZeroDivisionError or
\* that of the percentage of an empty original
AutoSummary(T, content, context_name, sm) ==
    LET original_size == Len(content)
        summary_size  == Len(sm.text)
        recorded == [ts |-> now, original_chars |-> original_size,
                     summary_chars |-> summary_size]
        after == [current_chars |-> summary_size,
                  summaries |-> DequeAppend(T.summaries, recorded, SUMMARIES_MAXLEN)]
    IN  IF sm.err
        THEN [exc |-> "ZeroDivisionError", text |-> "",
              tracker |-> [T EXCEPT !.current_chars = @ + Len(content)]]
        ELSE IF original_size = 0
        THEN [exc |-> "ZeroDivisionError", text |-> "", tracker |-> after]
        ELSE [exc |-> "none",
              text |-> "[AUTO-SUMMARIZED at "
                       \o FmtPct1(summary_size, CONTEXT_MAX_CHARS)
                       \o "% context usage: " \o context_name \o "]\n"
                       \o "[Original: " \o FmtComma(original_size)
                       \o " chars > Summary: " \o FmtComma(summary_size)
                       \o " chars (" \o FmtPct1(summary_size, original_size)
                       \o "%)\n\n" \o sm.text,
              tracker |-> after]

\* _auto_summarize_if_needed(content): the text returned and the tracker
\* after the call
_auto_summarize_if_needed(T, content, context_name) ==
    IF ~CONTEXT_SUMMARY_ENABLED THEN [exc |-> "none", text |-> content, tracker |-> T]
    ELSE IF ~should_summarize(T.current_chars + Len(content))
    THEN [exc |-> "none", text |-> content,
          tracker |-> [T EXCEPT !.current_chars = @ + Len(content)]]
    ELSE AutoSummary(T, content, context_name, _summarize_text(content, SummaryMaxChars))

\* ------------------------------------------------------------------------
\* Tools: read_file, write_file
\* ------------------------------------------------------------------------
\* the exception leaves the handler: nothing is audited on this path
Raise(op, arg, exc, err, abs) == last' = Outcome(op, arg, exc, err, <<>>, abs)

\* a call of tool op starts: it is counted and its rate check is recorded
Started(op, arg, admitted) ==
    /\ calls < budget
    /\ calls' = calls + 1
    /\ UNCHANGED <<budget, disk, probe, audit_log, log_events, sys_stderr, jwks_cache, metrics>>
    /\ hist' = Append(hist, [op |-> op, arg |-> arg, t |-> now, admitted |-> admitted])

read_file(path, allow_denied_explicit) ==
    LET arg == [path |-> path, allow_denied_explicit |-> allow_denied_explicit]
        rl  == RateCheck(events, "read_file", now)
        sj  == safe_join(fs, path)
        rel == as_posix(relative_to(sj.path, WORKSPACE_DIR))
        data == NodeAt(fs, sj.path).content
        sm  == _auto_summarize_if_needed(tracker, data, "file:" \o path)
    IN  /\ Started("read_file", arg, rl.ok)
        /\ events' = [events EXCEPT ![LimiterOf("read_file")] = rl.events]
        /\ UNCHANGED <<now, watcher, inv, procs>>
        /\ IF ~rl.ok
           THEN /\ Raise("read_file", arg, "RuntimeError", "Rate limit exceeded for reads", <<>>)
                /\ UNCHANGED <<fs, tracker, audited>>
           ELSE IF ~sj.ok
           THEN /\ Raise("read_file", arg, sj.exc, sj.err, <<>>)
                /\ UNCHANGED <<fs, tracker, audited>>
           ELSE IF ~is_file(fs, sj.path)
           THEN /\ Raise("read_file", arg, "FileNotFoundError", "Not a file", sj.path)
                /\ UNCHANGED <<fs, tracker, audited>>
           ELSE IF _denylisted(rel) /\ ~allow_denied_explicit
           THEN /\ Raise("read_file", arg, "PermissionError", "Path is denylisted", sj.path)
                /\ UNCHANGED <<fs, tracker, audited>>
           ELSE IF Len(data) > MAX_FILE_BYTES
           THEN LET msg == "File exceeds byte limit: " \o PathStr(sj.path) \o " ("
                           \o ToString(Len(data)) \o " bytes > " \o ToString(MAX_FILE_BYTES) \o ")"
                IN  /\ Audit(fs, AuditEntry(now, "read_file", << <<"path", JsonStr(path)>> >>,
                                            FALSE, << <<"error", JsonStr(msg)>> >>))
                    /\ Raise("read_file", arg, "ValueError", "File exceeds byte limit", sj.path)
                    /\ UNCHANGED tracker
           ELSE IF sm.exc # "none"
           THEN /\ Audit(fs, AuditEntry(now, "read_file", << <<"path", JsonStr(path)>> >>,
                                        FALSE, << <<"error", JsonStr("division by zero")>> >>))
                /\ Raise("read_file", arg, sm.exc, "division by zero", sj.path)
                /\ tracker' = sm.tracker
           ELSE /\ Audit(fs, AuditEntry(now, "read_file",
                                        << <<"path", JsonStr(path)>>,
                                           <<"allow_denied", JsonBool(allow_denied_explicit)>> >>,
                                        TRUE,
                                        << <<"size", JsonInt(Len(sm.text))>>,
                                           <<"context_pct", context_pct(sm.tracker.current_chars)>> >>))
                /\ last' = Outcome("read_file", arg, "none", "", sm.text, sj.path)
                /\ tracker' = sm.tracker

RelPosix(p) == as_posix(relative_to(p, WORKSPACE_DIR))

\* json.dumps(plan) of the preview
WritePlan(rel, content, mode) ==
    JsonObj(<< <<"action", JsonStr("WRITE_PREVIEW")>>, <<"path", JsonStr(rel)>>,
               <<"bytes", JsonInt(Len(content))>>, <<"mode", JsonStr(mode)>>,
               <<"note", JsonStr("Resend with require_confirmation=false to apply")>> >>)

\* a preview branch that writes the content before it returns the plan
write_file_preview_applying(arg, abs_path) ==
    /\ Audit(OpenWrite(fs, abs_path, arg.content, FALSE).fs,
             AuditEntry(now, "write_file",
                        << <<"path", JsonStr(arg.path)>>, <<"mode", JsonStr(arg.mode)>> >>, TRUE,
                        << <<"preview", JsonBool(TRUE)>> >>))
    /\ last' = Outcome("write_file", arg, "none", "",
                       WritePlan(RelPosix(abs_path), arg.content, arg.mode), abs_path)

\* the preview branch: the plan is audited and returned
write_file_preview(arg, abs_path) ==
    /\ Audit(fs, AuditEntry(now, "write_file",
                            << <<"path", JsonStr(arg.path)>>, <<"mode", JsonStr(arg.mode)>> >>, TRUE,
                            << <<"preview", JsonBool(TRUE)>> >>))
    /\ last' = Outcome("write_file", arg, "none", "",
                       WritePlan(RelPosix(abs_path), arg.content, arg.mode), abs_path)

\* mode == "create" and exists
CreateRefused(mode, exist) == mode = "create" /\ exist

write_file(path, content, mode, require_confirmation, create_dirs) ==
    LET arg == [path |-> path, content |-> content, mode |-> mode,
                require_confirmation |-> require_confirmation, create_dirs |-> create_dirs]
        rl  == RateCheck(events, "write_file", now)
        sj  == safe_join(fs, path)
        md  == mkdir(fs, Parent(sj.path), create_dirs)
        exist == exists(md.fs, sj.path)
        wr  == OpenWrite(md.fs, sj.path, content, mode = "append" /\ exist)
        args == << <<"path", JsonStr(path)>>, <<"mode", JsonStr(mode)>> >>
    IN  /\ Started("write_file", arg, rl.ok)
        /\ events' = [events EXCEPT ![LimiterOf("write_file")] = rl.events]
        /\ UNCHANGED <<now, tracker, watcher, inv, procs>>
        /\ IF ~rl.ok
           THEN /\ Raise("write_file", arg, "RuntimeError", "Rate limit exceeded for writes", <<>>)
                /\ UNCHANGED <<fs, audited>>
           ELSE IF ~sj.ok
           THEN /\ Raise("write_file", arg, sj.exc, sj.err, <<>>)
                /\ UNCHANGED <<fs, audited>>
           ELSE IF require_confirmation
           THEN write_file_preview(arg, sj.path)
           ELSE IF md.exc # "none"
           THEN /\ Raise("write_file", arg, md.exc, "mkdir", sj.path)
                /\ UNCHANGED <<fs, audited>>
           ELSE IF CreateRefused(mode, exist)
           THEN /\ Raise("write_file", arg, "FileExistsError", "File already exists (mode=create)", sj.path)
                /\ fs' = md.fs
                /\ UNCHANGED audited
           ELSE IF ~wr.ok
           THEN /\ Raise("write_file", arg, "IsADirectoryError", "open", sj.path)
                /\ fs' = md.fs
                /\ UNCHANGED audited
           ELSE /\ Audit(wr.fs, AuditEntry(now, "write_file", args, TRUE,
                                           << <<"applied", JsonBool(TRUE)>>,
                                              <<"bytes", JsonInt(Len(content))>> >>))
                /\ last' = Outcome("write_file", arg, "none", "", "OK", sj.path)

\* time.time() advances by d seconds, up to limit
Advance(d, limit) ==
    /\ now + d <= limit
    /\ now' = now + d
    /\ UNCHANGED <<fs, events, tracker, watcher, inv, procs, audited, last, hist, calls, budget, disk, probe, audit_log, log_events, sys_stderr, jwks_cache, metrics>>

\* one second passes
Tick == Advance(1, MaxTime)

\* a whole rate window passes
Lapse == Advance(RateWindow, RateWindow)

\* rate_read.allow() called on its own
rate_allow ==
    LET rl == allow(events.read, now, RATE_LIMITS.read[1], RATE_LIMITS.read[2])
    IN  /\ Started("allow", <<>>, rl.ok)
        /\ events' = [events EXCEPT !.read = rl.events]
        /\ last' = Outcome("allow", <<>>, "none", "", rl.ok, <<>>)
        /\ UNCHANGED <<fs, now, tracker, watcher, inv, procs, audited>>

\* ------------------------------------------------------------------------
\* Directory traversal (Path.rglob)
\* ------------------------------------------------------------------------
\* every file name of the model, in ascending order
NameOrder == << ".env", ".git", ".mcp_audit.log", ".mcp_audit.log.1", ".mcp_audit.log.2",
                ".mcp_audit.log.3", "HEAD", "README.md", "a.py", "config", "dl", "lnk", "loop",
                "n.txt", "new", "notes.txt", "out", "secret", "src", "sub", "ws" >>

Reverse(seq) == [k \in 1..Len(seq) |-> seq[Len(seq) + 1 - k]]

\* os.scandir(dir): the order is not specified; the model lists a directory
\* in ascending or in descending name order
scandir(F, dir, ord) ==
    LET names == SelectSeq(NameOrder, LAMBDA n : Append(dir, n) \in DOMAIN F)
        paths == [k \in 1..Len(names) |-> Append(dir, names[k])]
    IN  IF ord = "asc" THEN paths ELSE Reverse(paths)

RECURSIVE rglob(_, _, _)
RECURSIVE rglobEach(_, _, _)
\* dir.rglob("*"): the entries of dir, then those of each real subdirectory
\* (a symlink to a directory is listed but not entered)
rglob(F, dir, ord) ==
    IF dir \in DOMAIN F /\ F[dir].kind = "dir"
    THEN LET entries == scandir(F, dir, ord)
         IN  entries \o rglobEach(F, SelectSeq(entries, LAMBDA e : F[e].kind = "dir"), ord)
    ELSE <<>>

rglobEach(F, dirs, ord) ==
    IF dirs = <<>> THEN <<>> ELSE rglob(F, Head(dirs), ord) \o rglobEach(F, Tail(dirs), ord)

ScanOrders == {"asc", "desc"}

\* Path(f).suffix of a relative posix path
suffix(f) ==
    LET name == LET ps == SplitStr(f, "/") IN ps[Len(ps)]
        dots == {i \in 2..Len(name) : CharAt(name, i) = "."}
    IN  IF dots = {} THEN ""
        ELSE LET i == CHOOSE d \in dots : \A e \in dots : e <= d
             IN  IF i = Len(name) THEN "" ELSE SubSeq(name, i, Len(name))

RECURSIVE GroupKeys(_, _)
\* the distinct keys of a sequence, in order of first appearance (dict order)
GroupKeys(keys, seen) ==
    IF keys = <<>> THEN <<>>
    ELSE IF Head(keys) \in seen THEN GroupKeys(Tail(keys), seen)
    ELSE <<Head(keys)>> \o GroupKeys(Tail(keys), seen \cup {Head(keys)})

RECURSIVE SortBySizeDesc(_)
\* sorted(groups, key=len, reverse=True): stable
SortBySizeDesc(groups) ==
    IF groups = <<>> THEN <<>>
    ELSE LET best == CHOOSE k \in 1..Len(groups) :
                        /\ \A j \in 1..Len(groups) : Len(groups[j][2]) <= Len(groups[k][2])
                        /\ \A j \in 1..(k - 1) : Len(groups[j][2]) < Len(groups[k][2])
         IN  <<groups[best]>> \o
             SortBySizeDesc([j \in 1..(Len(groups) - 1) |-> IF j < best THEN groups[j] ELSE groups[j + 1]])

\* group the items of seq by key(item): sequence of <<key, items>>
GroupBy(seq, key(_)) ==
    LET ks == GroupKeys([k \in 1..Len(seq) |-> key(seq[k])], {})
    IN  [g \in 1..Len(ks) |-> <<ks[g], SelectSeq(seq, LAMBDA x : key(x) = ks[g])>>]

RECURSIVE Flatten(_)
Flatten(ss) == IF ss = <<>> THEN <<>> ELSE Head(ss) \o Flatten(Tail(ss))

\* ------------------------------------------------------------------------
\* Tools: list_files, search_code
\* ------------------------------------------------------------------------
Take(seq, n) == SubSeq(seq, 1, Min(n, Len(seq)))

\* the loop of list_files: the first entries that pass the filters; the
\* length is tested after each append
ListLoop(F, base_abs, pattern, max_results, include_denied, ord) ==
    LET files == SelectSeq(rglob(F, base_abs, ord), LAMBDA q : is_file(F, q))
        names == [k \in 1..Len(files) |-> RelPosix(files[k])]
        kept  == SelectSeq(names, LAMBDA rel : fnmatch(rel, pattern)
                                               /\ (include_denied \/ ~_denylisted(rel)))
    IN  Take(kept, Max(1, max_results))

ExtOf(f) == IF suffix(f) = "" THEN "no_ext" ELSE suffix(f)

\* the lines list_files prints for one extension group
GroupLines(g) ==
    LET ext == g[1]
        files == g[2]
        shown == [k \in 1..Min(10, Len(files)) |-> "  - " \o files[k]]
    IN  IF Len(files) <= 10
        THEN <<"\n" \o ext \o ": " \o ToString(Len(files)) \o " files">> \o shown
        ELSE <<"\n" \o ext \o ": " \o ToString(Len(files)) \o " files (showing first 10)">>
             \o shown \o <<"  ... and " \o ToString(Len(files) - 10) \o " more">>

ListSummary(results, chars) ==
    LET groups == SortBySizeDesc(GroupBy(results, ExtOf))
    IN  JoinStr("\n", <<"Total files: " \o ToString(Len(results)) \o " (summarized at "
                        \o FmtPct1(chars, CONTEXT_MAX_CHARS) \o "% context usage)">>
                      \o Flatten([g \in 1..Len(groups) |-> GroupLines(groups[g])]))

list_files(base, pattern, max_results, include_denied, ord) ==
    LET arg == [base |-> base, pattern |-> pattern, max_results |-> max_results,
                include_denied |-> include_denied]
        rl  == RateCheck(events, "list_files", now)
        sj  == safe_join(fs, base)
        results == ListLoop(fs, sj.path, pattern, max_results, include_denied, ord)
        added == tracker.current_chars + Len(JoinStr("\n", results))
        chars == IF should_summarize(added) THEN Len(ListSummary(results, added)) ELSE added
    IN  /\ Started("list_files", arg, rl.ok)
        /\ events' = [events EXCEPT ![LimiterOf("list_files")] = rl.events]
        /\ UNCHANGED <<now, watcher, inv, procs>>
        /\ IF ~rl.ok
           THEN /\ Raise("list_files", arg, "RuntimeError", "Rate limit exceeded for reads", <<>>)
                /\ UNCHANGED <<fs, tracker, audited>>
           ELSE IF ~sj.ok
           THEN /\ Raise("list_files", arg, sj.exc, sj.err, <<>>)
                /\ UNCHANGED <<fs, tracker, audited>>
           ELSE IF ~exists(fs, sj.path)
           THEN /\ Raise("list_files", arg, "FileNotFoundError", "Base not found", sj.path)
                /\ UNCHANGED <<fs, tracker, audited>>
           ELSE /\ tracker' = [tracker EXCEPT !.current_chars = chars]
                /\ Audit(fs, AuditEntry(now, "list_files",
                                        << <<"base", JsonStr(base)>>, <<"pattern", JsonStr(pattern)>> >>,
                                        TRUE,
                                        << <<"count", JsonInt(Len(results))>>,
                                           <<"context_pct", context_pct(chars)>> >>))
                /\ last' = Traversed(Outcome("list_files", arg, "none", "", results, sj.path))

\* re.compile(query, re.MULTILINE) on the queries of the model: a query of
\* ordinary characters is a literal; the others used here are "(" and "[a",
\* which re.compile rejects
RegexMeta == {"(", ")", "[", "]", "*", "+", "?", "{", "}", "\\", "^", "$", ".", "|"}

compile(query) ==
    IF Chars(query) \cap RegexMeta = {} THEN [ok |-> TRUE, re |-> Lit(query)]
    ELSE [ok |-> FALSE, re |-> Lit("")]

RECURSIVE finditer(_, _, _)
\* pattern.finditer(text) from position pos: <<start, end>> of each match
finditer(re, text, pos) ==
    LET starts == {i \in pos..Len(text) : Ends(re, text, {i}) # {}}
    IN  IF starts = {} THEN <<>>
        ELSE LET i == CHOOSE a \in starts : \A b \in starts : a <= b
                 e == CHOOSE a \in Ends(re, text, {i}) : \A b \in Ends(re, text, {i}) : b <= a
             IN  <<<<i, e>>>> \o finditer(re, text, IF e > i THEN e ELSE i + 1)

Hit(rel, text, m, context_lines) ==
    LET lines   == splitlines(text)
        line_no == Cardinality({k \in 1..m[1] : CharAt(text, k) = "\n"}) + 1
        lo      == Max(1, line_no - context_lines)
        hi      == Min(Len(lines), line_no + context_lines)
    IN  [file |-> rel, line |-> line_no, match |-> SubSeq(text, m[1] + 1, m[2]),
         context |-> JoinStr("\n", SubSeq(lines, lo, hi))]

RECURSIVE SearchLoop(_, _, _, _, _, _, _)
\* the loops of search_code over the traversal: the inner loop stops once
\* max_results is reached, the outer loop goes on to the next file
SearchLoop(F, paths, re, file_glob, max_results, context_lines, hits) ==
    IF paths = <<>> THEN hits
    ELSE LET path == Head(paths)
             rel  == RelPosix(path)
             skip == \/ ~is_file(F, path)
                     \/ _denylisted(rel)
                     \/ ~fnmatch(rel, file_glob)
                     \/ Len(NodeAt(F, path).content) > MAX_FILE_BYTES
             text == NodeAt(F, path).content
             ms   == finditer(re, text, 0)
             n    == Min(Len(ms), Max(1, max_results - Len(hits)))
             more == [k \in 1..n |-> Hit(rel, text, ms[k], context_lines)]
         IN  SearchLoop(F, Tail(paths), re, file_glob, max_results, context_lines,
                        IF skip THEN hits ELSE hits \o more)

HitJson(h) ==
    JsonObj(<< <<"file", JsonStr(h.file)>>, <<"line", JsonInt(h.line)>>,
               <<"match", JsonStr(h.match)>>, <<"context", JsonStr(h.context)>> >>)

\* json.dumps(hits)
HitsJson(hits) == "[" \o JoinStr(", ", [k \in 1..Len(hits) |-> HitJson(hits[k])]) \o "]"

FileOf(h) == h.file

\* the summarization branch of search_code
SearchSummary(hits) ==
    LET sorted_files == SortBySizeDesc(GroupBy(hits, FileOf))
        top_files    == Take(sorted_files, 5)
        other_files  == SubSeq(sorted_files, 6, Len(sorted_files))
        other_count  == Len(Flatten([g \in 1..Len(other_files) |-> other_files[g][2]]))
        n            == ToString(Len(other_files))
        c            == ToString(other_count)
    IN  Flatten([g \in 1..Len(top_files) |-> Take(top_files[g][2], 10)])
        \o (IF other_files = <<>> THEN <<>>
            ELSE <<[file |-> "[" \o n \o " other files]", line |-> 0,
                    match |-> "... " \o c \o " more matches in " \o n \o " files ...",
                    context |-> "Summarized: " \o c \o " matches across " \o n
                                \o " files (showing top 5 files only)"]>>)

\* a variant that compiles the query only after walking the tree
search_code_invalid_after_walk(arg) ==
    /\ last' = Traversed(Outcome("search_code", arg, "ValueError", "Invalid regex", <<>>, <<>>))
    /\ UNCHANGED <<fs, tracker, audited>>

\* re.error from re.compile: ValueError leaves the handler before its loop
search_code_invalid(arg) ==
    /\ Raise("search_code", arg, "ValueError", "Invalid regex", <<>>)
    /\ UNCHANGED <<fs, tracker, audited>>

search_code(query, file_glob, max_results, context_lines, ord) ==
    LET arg == [query |-> query, file_glob |-> file_glob, max_results |-> max_results,
                context_lines |-> context_lines]
        rl  == RateCheck(events, "search_code", now)
        pattern == compile(query)
        found == SearchLoop(fs, rglob(fs, WORKSPACE_DIR, ord), pattern.re, file_glob,
                            max_results, context_lines, <<>>)
        summarize == should_summarize(tracker.current_chars) /\ found # <<>>
        hits  == IF summarize THEN SearchSummary(found) ELSE found
        chars == IF summarize THEN Len(HitsJson(hits)) ELSE tracker.current_chars
    IN  /\ Started("search_code", arg, rl.ok)
        /\ events' = [events EXCEPT ![LimiterOf("search_code")] = rl.events]
        /\ UNCHANGED <<now, watcher, inv, procs>>
        /\ IF ~rl.ok
           THEN /\ Raise("search_code", arg, "RuntimeError", "Rate limit exceeded for reads", <<>>)
                /\ UNCHANGED <<fs, tracker, audited>>
           ELSE IF ~pattern.ok
           THEN search_code_invalid(arg)
           ELSE /\ tracker' = [tracker EXCEPT !.current_chars = chars]
                /\ Audit(fs, AuditEntry(now, "search_code", << <<"query", JsonStr(query)>> >>,
                                        TRUE,
                                        << <<"count", JsonInt(Len(hits))>>,
                                           <<"context_pct", context_pct(chars)>> >>))
                /\ last' = Traversed(Outcome("search_code", arg, "none", "", hits, <<>>))

\* ------------------------------------------------------------------------
\* CommandWatcher
\* ------------------------------------------------------------------------
HISTORY_MAXLEN == 50

\* a start_command that files the command under a status of its own
start_command_pending(W, command_id, command) ==
    IF ~W.enabled THEN W
    ELSE [W EXCEPT !.active_commands =
              Put(@, command_id, [command |-> command, start_time |-> now, status |-> "pending",
                                  held |-> <<"pending">>])]

\* (held is no field of the source: it keeps, for the properties, the
\* statuses the entry has been given so far, in order)
start_command(W, command_id, command) ==
    IF ~W.enabled THEN W
    ELSE [W EXCEPT !.active_commands =
              Put(@, command_id, [command |-> command, start_time |-> now, status |-> "running",
                                  held |-> <<"running">>])]

update_command(W, command_id, status) ==
    IF ~W.enabled \/ command_id \notin DOMAIN W.active_commands THEN W
    ELSE [W EXCEPT !.active_commands =
              Put(@, command_id, [@[command_id] EXCEPT !.status = status,
                                                       !.held = Append(@, status)])]

\* (the entry of the history keeps the statuses the command was given)
end_command(W, command_id, success, returncode, elapsed_ms) ==
    IF ~W.enabled \/ command_id \notin DOMAIN W.active_commands THEN W
    ELSE [W EXCEPT !.active_commands = Remove(@, command_id),
                   !.command_history =
                       DequeAppend(@, [command |-> W.active_commands[command_id].command,
                                       success |-> success, returncode |-> returncode,
                                       elapsed_ms |-> elapsed_ms, timestamp |-> now,
                                       held |-> W.active_commands[command_id].held],
                                   HISTORY_MAXLEN)]

\* ------------------------------------------------------------------------
\* Tool: run_command (a coroutine: it is suspended while the subprocess is
\* created, while it runs, and while a killed subprocess is awaited)
\* ------------------------------------------------------------------------
Whitespace == {" ", "\t", "\n", "\r", "\f"}

RECURSIVE lstrip(_)
lstrip(s) == IF s # "" /\ CharAt(s, 1) \in Whitespace THEN lstrip(Tail(s)) ELSE s

RECURSIVE rstrip(_)
rstrip(s) == IF s # "" /\ CharAt(s, Len(s)) \in Whitespace THEN rstrip(SubSeq(s, 1, Len(s) - 1)) ELSE s

strip(s) == rstrip(lstrip(s))

\* s.split(None, 1)
split1(s) ==
    LET t == lstrip(s)
        ws == {i \in 1..Len(t) : CharAt(t, i) \in Whitespace}
    IN  IF t = "" THEN <<>>
        ELSE IF ws = {} THEN <<t>>
        ELSE LET i == CHOOSE a \in ws : \A b \in ws : a <= b
                 rest == lstrip(SubSeq(t, i, Len(t)))
             IN  IF rest = "" THEN <<SubSeq(t, 1, i - 1)>>
                 ELSE <<SubSeq(t, 1, i - 1), rest>>

NeedsNoPager(command) == StartsWith(strip(command), "git ") /\ ~Contains(command, "--no-pager")

\* the command line handed to the shell
ShellLine(command) ==
    IF NeedsNoPager(command)
    THEN IF Len(split1(command)) > 1
         THEN split1(command)[1] \o " --no-pager " \o split1(command)[2]
         ELSE command \o " --no-pager"
    ELSE command

\* f"cmd_{int(time.time() * 1000)}"
CommandId(t) == "cmd_" \o ToString(t * 1000)

\* a rejection that comes after the watcher was told of the command
run_command_rejected_late(arg, command_id) ==
    /\ Raise("run_command", arg, "PermissionError", "Command not allowed by whitelist", <<>>)
    /\ watcher' = start_command(watcher, command_id, arg.command)
    /\ UNCHANGED inv

\* the command is not whitelisted: PermissionError leaves the handler before
\* the command id is made and the watcher is told
run_command_rejected(arg, command_id) ==
    /\ Raise("run_command", arg, "PermissionError", "Command not allowed by whitelist", <<>>)
    /\ UNCHANGED <<watcher, inv>>

\* start_command has put the command into active_commands and logged it;
\* its sys.stderr.flush() raises on a broken stderr, before the try block
run_command_flush_error(arg, w1) ==
    /\ Raise("run_command", arg, "BrokenPipeError", "[Errno 32] Broken pipe", <<>>)
    /\ watcher' = w1
    /\ UNCHANGED inv

\* run_command that validates the command before it asks the limiter
run_command_validating_first(i, command, timeout_seconds) ==
    LET arg == [command |-> command, timeout_seconds |-> timeout_seconds]
        rl  == RateCheck(events, "run_command", now)
        command_id == CommandId(now)
        w1 == start_command(watcher, command_id, command)
        w2 == IF NeedsNoPager(command) THEN update_command(w1, command_id, "modified") ELSE w1
        w3 == update_command(w2, command_id, "spawning")
    IN  /\ inv[i].pc = "idle"
        /\ Started("run_command", arg, rl.ok)
        /\ UNCHANGED <<now, fs, tracker, procs, audited>>
        /\ IF ~is_allowed_command(command)
           THEN /\ run_command_rejected(arg, command_id)
                /\ UNCHANGED events
           ELSE IF ~rl.ok
           THEN /\ Raise("run_command", arg, "RuntimeError", "Rate limit exceeded for commands", <<>>)
                /\ events' = [events EXCEPT ![LimiterOf("run_command")] = rl.events]
                /\ UNCHANGED <<watcher, inv>>
           ELSE /\ watcher' = w3
                /\ events' = [events EXCEPT ![LimiterOf("run_command")] = rl.events]
                /\ inv' = [inv EXCEPT ![i] = [pc |-> "spawn", arg |-> arg, command |-> ShellLine(command),
                                              original_command |-> command, command_id |-> command_id,
                                              timeout_seconds |-> timeout_seconds, proc |-> 0, t0 |-> 0]]
                /\ UNCHANGED last

run_command(i, command, timeout_seconds) ==
    LET arg == [command |-> command, timeout_seconds |-> timeout_seconds]
        rl  == RateCheck(events, "run_command", now)
        command_id == CommandId(now)
        w1 == start_command(watcher, command_id, command)
        w2 == IF NeedsNoPager(command) THEN update_command(w1, command_id, "modified") ELSE w1
        w3 == update_command(w2, command_id, "spawning")
    IN  /\ inv[i].pc = "idle"
        /\ Started("run_command", arg, rl.ok)
        /\ events' = [events EXCEPT ![LimiterOf("run_command")] = rl.events]
        /\ UNCHANGED <<now, fs, tracker, procs, audited>>
        /\ IF ~rl.ok
           THEN /\ Raise("run_command", arg, "RuntimeError", "Rate limit exceeded for commands", <<>>)
                /\ UNCHANGED <<watcher, inv>>
           ELSE IF ~is_allowed_command(command)
           THEN run_command_rejected(arg, command_id)
           ELSE IF watcher.enabled /\ sys_stderr = "broken"
           THEN run_command_flush_error(arg, w1)
           ELSE /\ watcher' = w3
                /\ inv' = [inv EXCEPT ![i] = [pc |-> "spawn", arg |-> arg, command |-> ShellLine(command),
                                              original_command |-> command, command_id |-> command_id,
                                              timeout_seconds |-> timeout_seconds, proc |-> 0, t0 |-> 0]]
                /\ UNCHANGED last

\* asyncio.create_subprocess_shell returns: the shell runs the command line
run_command_spawned(i) ==
    /\ inv[i].pc = "spawn"
    /\ procs' = Append(procs, [line |-> inv[i].command, state |-> "running", by |-> i])
    /\ watcher' = update_command(watcher, inv[i].command_id, "executing")
    /\ inv' = [inv EXCEPT ![i].pc = "wait", ![i].proc = Len(procs) + 1, ![i].t0 = now]
    /\ UNCHANGED <<fs, now, events, tracker, audited, last, hist, calls, budget, disk, probe, audit_log, log_events, sys_stderr, jwks_cache, metrics>>

\* asyncio.create_subprocess_shell raises (no process can be created)
run_command_spawn_error(i) ==
    /\ inv[i].pc = "spawn"
    /\ watcher' = end_command(watcher, inv[i].command_id, FALSE, -1, 0)
    /\ inv' = [inv EXCEPT ![i] = IdleInv]
    /\ last' = Outcome("run_command", inv[i].arg, "OSError", "spawn", <<>>, <<>>)
    /\ UNCHANGED <<fs, now, events, tracker, procs, audited, hist, calls, budget, disk, probe, audit_log, log_events, sys_stderr, jwks_cache, metrics>>

\* the subprocess exits before the timeout: communicate() returns
run_command_completed(i, returncode, stdout, stderr) ==
    LET elapsed_ms == (now - inv[i].t0) * 1000
        success == returncode = 0
        output_size == Len(stdout) + Len(stderr)
        w1 == update_command(watcher, inv[i].command_id, "completed")
    IN  /\ inv[i].pc = "wait"
        /\ now - inv[i].t0 <= inv[i].timeout_seconds
        /\ procs' = [procs EXCEPT ![inv[i].proc].state = "exited"]
        /\ watcher' = end_command(w1, inv[i].command_id, success, returncode, elapsed_ms)
        /\ Audit(fs, AuditEntry(now, "run_command",
                                << <<"command", JsonStr(inv[i].original_command)>> >>, success,
                                << <<"rc", JsonInt(returncode)>>, <<"ms", JsonInt(elapsed_ms)>>,
                                   <<"output_size", JsonInt(output_size)>> >>))
        /\ inv' = [inv EXCEPT ![i] = IdleInv]
        /\ last' = Outcome("run_command", inv[i].arg, "none", "",
                           [returncode |-> returncode, stdout |-> stdout, stderr |-> stderr,
                            elapsed_ms |-> elapsed_ms], <<>>)
        /\ UNCHANGED <<now, events, tracker, hist, calls, budget, disk, probe, audit_log, log_events, sys_stderr, jwks_cache, metrics>>

\* wait_for times out: the process is killed and its exit is awaited
run_command_timeout(i) ==
    /\ inv[i].pc = "wait"
    /\ now - inv[i].t0 >= inv[i].timeout_seconds
    /\ watcher' = update_command(watcher, inv[i].command_id, "timeout")
    /\ procs' = [procs EXCEPT ![inv[i].proc].state = "killed"]
    /\ inv' = [inv EXCEPT ![i].pc = "kill_wait"]
    /\ UNCHANGED <<fs, now, events, tracker, audited, last, hist, calls, budget, disk, probe, audit_log, log_events, sys_stderr, jwks_cache, metrics>>

\* wait_for times out, and the subprocess exits on its own before proc.kill()
\* is reached: kill() raises ProcessLookupError out of the except block, the
\* outer handler calls end_command and re-raises; nothing is audited
run_command_timeout_exited(i) ==
    LET w1 == update_command(watcher, inv[i].command_id, "timeout")
    IN  /\ inv[i].pc = "wait"
        /\ now - inv[i].t0 >= inv[i].timeout_seconds
        /\ procs' = [procs EXCEPT ![inv[i].proc].state = "exited"]
        /\ watcher' = end_command(w1, inv[i].command_id, FALSE, -1, 0)
        /\ inv' = [inv EXCEPT ![i] = IdleInv]
        /\ last' = Outcome("run_command", inv[i].arg, "ProcessLookupError", "", <<>>, <<>>)
        /\ UNCHANGED <<fs, now, events, tracker, audited, hist, calls, budget, disk, probe, audit_log, log_events, sys_stderr, jwks_cache, metrics>>

\* proc.wait() returns: audit, end_command, TimeoutError; the outer handler
\* calls end_command once more and re-raises
run_command_reaped(i) ==
    LET w1 == end_command(watcher, inv[i].command_id, FALSE, -1, inv[i].timeout_seconds * 1000)
    IN  /\ inv[i].pc = "kill_wait"
        /\ procs' = [procs EXCEPT ![inv[i].proc].state = "exited"]
        /\ Audit(fs, AuditEntry(now, "run_command",
                                << <<"command", JsonStr(inv[i].original_command)>> >>, FALSE,
                                << <<"timeout", JsonInt(inv[i].timeout_seconds)>> >>))
        /\ watcher' = end_command(w1, inv[i].command_id, FALSE, -1, 0)
        /\ inv' = [inv EXCEPT ![i] = IdleInv]
        /\ last' = Outcome("run_command", inv[i].arg, "TimeoutError",
                           "Command timed out after " \o ToString(inv[i].timeout_seconds)
                           \o " seconds", <<>>, <<>>)
        /\ UNCHANGED <<now, events, tracker, hist, calls, budget, disk, probe, audit_log, log_events, sys_stderr, jwks_cache, metrics>>

\* ------------------------------------------------------------------------
\* Tool: reset_context
\* ------------------------------------------------------------------------
\* reset_context that leaves the events of the command limiter in place
reset_context_keeping_cmd ==
    /\ Started("reset_context", <<>>, TRUE)
    /\ tracker' = [tracker EXCEPT !.current_chars = 0]
    /\ events' = [c \in Classes |-> IF c = LimiterOf("run_command") THEN events[c] ELSE <<>>]
    /\ Audit(fs, AuditEntry(now, "reset_context", <<>>, TRUE, << <<"reset", JsonBool(TRUE)>> >>))
    /\ last' = Outcome("reset_context", <<>>, "none", "",
                       [status |-> "reset", previous_chars |-> tracker.current_chars,
                        current_chars |-> 0, rate_limiters_reset |-> TRUE], <<>>)
    /\ UNCHANGED <<now, watcher, inv, procs>>

reset_context ==
    /\ Started("reset_context", <<>>, TRUE)
    /\ tracker' = [tracker EXCEPT !.current_chars = 0]
    /\ events' = [c \in Classes |-> <<>>]
    /\ Audit(fs, AuditEntry(now, "reset_context", <<>>, TRUE, << <<"reset", JsonBool(TRUE)>> >>))
    /\ last' = Outcome("reset_context", <<>>, "none", "",
                       [status |-> "reset", previous_chars |-> tracker.current_chars,
                        current_chars |-> 0, rate_limiters_reset |-> TRUE], <<>>)
    /\ UNCHANGED <<now, watcher, inv, procs>>

\* ------------------------------------------------------------------------
\* _summarize_text applied to a text
\* ------------------------------------------------------------------------
summarize_text(text, max_chars) ==
    LET arg == [text |-> text, max_chars |-> max_chars]
        sm  == _summarize_text(text, max_chars)
    IN  /\ Started("_summarize_text", arg, TRUE)
        /\ last' = Outcome("_summarize_text", arg,
                           IF sm.err THEN "ZeroDivisionError" ELSE "none", "", sm.text, <<>>)
        /\ UNCHANGED <<fs, now, events, tracker, watcher, inv, procs, audited>>

\* ------------------------------------------------------------------------
\* HTTP bindings: http_mcp_bridge.py (static token in the query string) and
\* http_mcp_oauth_bridge.py (bearer JWT).  A request is one step; when it
\* passes authentication and names a tool, the handler of the tool runs in
\* the next step (the request is pending until then).
\* A query parameter or a header is <<>> when absent and <<v>> when sent.
\* ------------------------------------------------------------------------
MCP_HTTP_TOKEN == "3f7a1c2e5d8b9f0a4c7e2d1b6a5f9c8e7d0b3a6c5e1f2d4b7c9a0e3f6d1b2c4"

\* verify_token that accepts every prefix of the configured token
verify_token_prefix(token) == StartsWith(MCP_HTTP_TOKEN, token)

verify_token(token) == IF token = "" THEN FALSE ELSE token = MCP_HTTP_TOKEN

tool_handlers == {"read_file", "list_files", "write_file", "run_command",
                  "get_diagnostics", "search_code", "reset_context"}

_TOOL_MAP == {"read_file", "list_files", "write_file", "run_command",
              "get_diagnostics", "search_code", "reset_context"}

\* json.dumps of the arguments of a call (calls carry at most one argument)
ArgumentsJson(arguments) ==
    IF DOMAIN arguments = {} THEN "{}"
    ELSE LET k == CHOOSE x \in DOMAIN arguments : TRUE
         IN  JsonObj(<< <<k, JsonStr(arguments[k])>> >>)

\* the response of a request that ends without running a tool
HttpReply(req, status, detail) ==
    last' = Outcome("http", req, "none", "",
                    [status |-> status, detail |-> detail, pending |-> FALSE], <<>>)

\* the request reached `await tool_handler(**arguments)` / `await fn(**body.params)`
HttpDispatch(req) ==
    last' = Outcome("http", req, "none", "",
                    [status |-> 0, detail |-> "", pending |-> TRUE], <<>>)

Pending == last.op = "http" /\ last.ret.pending

\* POST /mcp/tool/{tool_name}?token=... on the token binding, up to the call
\* of the tool handler inside handle_request("tools/call")
mcp_tool(token, origin, tool_name, arguments) ==
    LET req == [binding |-> "token", token |-> token, origin |-> origin,
                tool |-> tool_name, arguments |-> arguments]
    IN  /\ ~Pending
        /\ calls + 1 < budget
        /\ Started("http", req, token # <<>> /\ verify_token(token[1]))
        /\ UNCHANGED <<now, events, tracker, watcher, inv, procs>>
        /\ IF token = <<>>
           THEN /\ HttpReply(req, 422, "Field required")
                /\ UNCHANGED <<fs, audited>>
           ELSE IF ~verify_token(token[1])
           THEN /\ Audit(fs, AuditEntry(now, "http_mcp", << <<"tool", JsonStr(tool_name)>> >>, FALSE,
                                        << <<"error", JsonStr("Invalid token")>>,
                                           <<"origin", JsonStr(origin)>> >>))
                /\ HttpReply(req, 401, "Invalid token")
           ELSE /\ Audit(fs, AuditEntry(now, "http_mcp",
                                        << <<"tool", JsonStr(tool_name)>>,
                                           <<"arguments", ArgumentsJson(arguments)>> >>, TRUE,
                                        << <<"origin", JsonStr(origin)>> >>))
                /\ IF tool_name \notin tool_handlers
                   THEN HttpReply(req, 500, "404: Tool not found: " \o tool_name)
                   ELSE HttpDispatch(req)

UPPERCASE == "ABCDEFGHIJKLMNOPQRSTUVWXYZ"
LOWERCASE == "abcdefghijklmnopqrstuvwxyz"

\* str.lower
RECURSIVE lower(_)
lower(s) ==
    IF s = "" THEN ""
    ELSE LET c == CharAt(s, 1)
             K == {k \in 1..Len(UPPERCASE) : CharAt(UPPERCASE, k) = c}
         IN  (IF K = {} THEN c ELSE CharAt(LOWERCASE, CHOOSE k \in K : TRUE)) \o lower(Tail(s))

AUTH_ISSUER == "https://idp.example/"
AUTH_AUDIENCE == "cursor-mcp"
ALLOWED_ORIGINS == {"https://chatgpt.com", "https://chat.openai.com"}
REQUIRE_ORIGIN == TRUE

\* the keys the JWKS document of the issuer publishes
JwksKeys == {"idp-key"}

\* the bearer tokens of the exploration: the key that signed the token and
\* its aud, iss and exp claims; any other string is not a JWT
Jwts ==
    ("good" :> [key |-> "idp-key", aud |-> AUTH_AUDIENCE, iss |-> AUTH_ISSUER, exp |-> MaxTime + 1])
    @@ ("forged" :> [key |-> "other-key", aud |-> AUTH_AUDIENCE, iss |-> AUTH_ISSUER, exp |-> MaxTime + 1])
    @@ ("otheraud" :> [key |-> "idp-key", aud |-> "another-api", iss |-> AUTH_ISSUER, exp |-> MaxTime + 1])
    @@ ("otheriss" :> [key |-> "idp-key", aud |-> AUTH_AUDIENCE, iss |-> "https://evil.example/", exp |-> MaxTime + 1])
    @@ ("expired" :> [key |-> "idp-key", aud |-> AUTH_AUDIENCE, iss |-> AUTH_ISSUER, exp |-> -1])

\* jwt.decode(token, jwks, algorithms, audience, issuer) returns the claims
jwt_decode(token, keys, audience, issuer, t) ==
    /\ token \in DOMAIN Jwts
    /\ Jwts[token].key \in keys
    /\ Jwts[token].aud = audience
    /\ Jwts[token].iss = issuer
    /\ Jwts[token].exp >= t

_ok_origin(origin) ==
    IF ~REQUIRE_ORIGIN THEN TRUE
    ELSE \E o \in ALLOWED_ORIGINS : StartsWith(origin, o)

BearerSent(authorization) ==
    authorization # <<>> /\ authorization[1] # "" /\ StartsWith(lower(authorization[1]), "bearer ")

\* auth.split(" ", 1)[1].strip()
BearerToken(authorization) == strip(Slice(authorization[1], Len("bearer "), Len(authorization[1])))

\* _get_jwks answers from its cache once an earlier request has fetched the
\* document (the cache outlives the exploration)
JwksCached ==
    \E k \in 1..Len(hist) :
        /\ hist[k].op = "http" /\ hist[k].arg.binding = "oauth"
        /\ _ok_origin(hist[k].arg.origin) /\ BearerSent(hist[k].arg.authorization)
        /\ hist[k].arg.jwks

\* require_oauth: the status it raises, 200 when it returns
require_oauth(req) ==
    IF ~_ok_origin(req.origin) THEN [status |-> 403, detail |-> "Forbidden origin"]
    ELSE IF ~BearerSent(req.authorization)
    THEN [status |-> 401, detail |-> "Missing bearer token"]
    ELSE IF ~(JwksCached \/ req.jwks)
    THEN [status |-> 500, detail |-> "Internal Server Error"]
    ELSE IF ~jwt_decode(BearerToken(req.authorization), JwksKeys, AUTH_AUDIENCE, AUTH_ISSUER, now)
    THEN [status |-> 401, detail |-> "Invalid token"]
    ELSE [status |-> 200, detail |-> ""]

\* POST /mcp/tool/{name} on the OAuth binding, up to `await fn(**body.params)`;
\* jwks: the JWKS document can be fetched when the request needs it
call_tool(origin, authorization, jwks, name, params) ==
    LET req == [binding |-> "oauth", origin |-> origin, authorization |-> authorization,
                jwks |-> jwks, tool |-> name, arguments |-> params]
        auth == require_oauth(req)
    IN  /\ ~Pending
        /\ calls + 1 < budget
        /\ Started("http", req, auth.status = 200)
        /\ UNCHANGED <<fs, now, events, tracker, watcher, inv, procs, audited>>
        /\ IF auth.status # 200 THEN HttpReply(req, auth.status, auth.detail)
           ELSE IF name \notin _TOOL_MAP THEN HttpReply(req, 404, "Unknown tool: " \o name)
           ELSE HttpDispatch(req)

\* the handler of the pending request runs with the arguments of the request
tool_handler ==
    /\ Pending
    /\ \/ last.arg.tool = "read_file" /\ read_file(last.arg.arguments.path, FALSE)
       \/ last.arg.tool = "reset_context" /\ reset_context
       \/ last.arg.tool = "run_command" /\ run_command(1, last.arg.arguments.command, 60)
       \/ /\ last.arg.tool = "list_files"
          /\ list_files(".", last.arg.arguments.pattern, 2000, FALSE, "asc")

\* the request whose handler ran last
LastRequest ==
    LET K == {k \in 1..Len(hist) : hist[k].op = "http"}
    IN  hist[CHOOSE k \in K : \A j \in K : j <= k].arg

\* what the binding answers once the handler has returned or raised: the
\* token binding turns every exception into a 500 carrying str(e), the OAuth
\* binding answers 200 with a ToolResult
HttpResponse ==
    IF last.op = "http" THEN [status |-> last.ret.status, ok |-> FALSE, detail |-> last.ret.detail]
    ELSE IF LastRequest.binding = "token"
    THEN IF last.exc = "none" THEN [status |-> 200, ok |-> TRUE, detail |-> ""]
         ELSE [status |-> 500, ok |-> FALSE, detail |-> last.err]
    ELSE [status |-> 200, ok |-> last.exc = "none", detail |-> last.err]

\* ------------------------------------------------------------------------
\* Calls with arguments drawn from bounded sets
\* ------------------------------------------------------------------------
Modes == {"replace", "append", "create"}
Timeouts == {1}

ReadFileCall(paths, flags) == \E path \in paths, a \in flags : read_file(path, a)

WriteFileCall(paths, contents, modes, confirms, dirflags) ==
    \E path \in paths, content \in contents, mode \in modes, rc \in confirms, cd \in dirflags :
        write_file(path, content, mode, rc, cd)

ListFilesCall(bases, patterns, limits, flags, orders) ==
    \E base \in bases, pattern \in patterns, n \in limits, d \in flags, ord \in orders :
        list_files(base, pattern, n, d, ord)

SearchCodeCall(queries, globs, limits, orders) ==
    \E q \in queries, g \in globs, n \in limits, ord \in orders :
        search_code(q, g, n, 1, ord)

RunCommandCall(slots, commands) ==
    \E i \in slots, c \in commands, t \in Timeouts : run_command(i, c, t)

RunCommandSpawned == \E i \in 1..MaxInv : run_command_spawned(i)
RunCommandSpawnError == \E i \in 1..MaxInv : run_command_spawn_error(i)
RunCommandCompleted(codes, outs) ==
    \E i \in 1..MaxInv, rc \in codes, out \in outs : run_command_completed(i, rc, out, "")
RunCommandTimeout == \E i \in 1..MaxInv : run_command_timeout(i)
RunCommandTimeoutExited == \E i \in 1..MaxInv : run_command_timeout_exited(i)
RunCommandReaped == \E i \in 1..MaxInv : run_command_reaped(i)

\* ------------------------------------------------------------------------
\* Spec: the gateway, one call of every tool and a reset
\* ------------------------------------------------------------------------
GwCalls == 4

Init == InitWith(GwCalls)

Next ==
    \/ ReadFileCall({"README.md"}, {FALSE})
    \/ ListFilesCall({"."}, {"**/*"}, {2000}, {FALSE}, {"asc"})
    \/ SearchCodeCall({"("}, {"**/*"}, {200}, {"asc"})
    \/ WriteFileCall({"notes.txt"}, {"hello"}, {"create"}, {TRUE}, {TRUE})
    \/ RunCommandCall({1}, {"git status"})
    \/ RunCommandSpawned
    \/ RunCommandCompleted({0}, {"ok\n"})
    \/ reset_context

Spec == Init /\ [][Next]_vars

\* ------------------------------------------------------------------------
\* SpecRate: one limiter, called as time passes
\* ------------------------------------------------------------------------
RateCalls == 5

InitRate == InitWith(RateCalls)

NextRate ==
    \/ rate_allow
    \/ Tick

SpecRate == InitRate /\ [][NextRate]_vars

\* ------------------------------------------------------------------------
\* SpecSandbox: the tools that take a path, on paths of every kind
\* ------------------------------------------------------------------------
SandboxCalls == 2

SandboxPaths ==
    { "README.md", ".env", ".git/HEAD", "sub/.git/config", "src/a.py", "nope.txt", "src",
      "../out/secret", "/out/secret", "lnk", "dl/secret", "dl/../ws/README.md",
      "src/../README.md", "loop", "loop/../dl/secret" }

InitSandbox == InitWith(SandboxCalls)

NextSandbox ==
    \/ ReadFileCall(SandboxPaths, BOOLEAN)
    \/ ListFilesCall({".", "dl", "loop", "sub"}, {"**/*"}, {2000}, {FALSE}, {"asc"})
    \/ WriteFileCall({"lnk", "dl/x", "src/../n.txt", "loop"}, {"x"}, {"replace"}, {TRUE}, {TRUE})

SpecSandbox == InitSandbox /\ [][NextSandbox]_vars

\* ------------------------------------------------------------------------
\* SpecWrite: write_file in every mode, previewed and applied
\* ------------------------------------------------------------------------
WriteCalls == 2

InitWrite == InitWith(WriteCalls)

NextWrite ==
    \/ WriteFileCall({"notes.txt", "README.md", "new/n.txt"}, {"hello"}, Modes, BOOLEAN, BOOLEAN)

SpecWrite == InitWrite /\ [][NextWrite]_vars

\* ------------------------------------------------------------------------
\* SpecCmd: run_command on whitelisted and other command strings
\* ------------------------------------------------------------------------
CmdCalls == 2

\* s with the character c put in after its first n characters
Insert(s, c, n) == SubSeq(s, 1, n) \o c \o SubSeq(s, n + 1, Len(s))

Commands ==
    { Insert("git status", c, n) : c \in DANGEROUS_CHARS, n \in {0, 3, 10} }
    \cup { "git status", "git status; rm -rf /", "git diff --staged" \o BQ \o "id" \o BQ,
           "pytest -q", "pytest -q && id", "pytest -q | sh", "pytest $(id)",
           "git\nstatus", "pytest\nrm -rf /", "git\tstatus", "rm -rf /", "git status " }

InitCmd == InitWith(CmdCalls)

NextCmd ==
    \/ RunCommandCall({1}, Commands)
    \/ RunCommandSpawned
    \/ RunCommandSpawnError
    \/ RunCommandCompleted({0, 1}, {"ok\n"})
    \/ RunCommandTimeout
    \/ RunCommandTimeoutExited
    \/ RunCommandReaped
    \/ Lapse

SpecCmd == InitCmd /\ [][NextCmd]_vars

\* ------------------------------------------------------------------------
\* SpecList: list_files and search_code with small and large limits
\* ------------------------------------------------------------------------
ListCalls == 2

InitList == InitWith(ListCalls)

NextList ==
    \/ ListFilesCall({"."}, {"*"}, {0, 1, 2000}, BOOLEAN, ScanOrders)
    \/ SearchCodeCall({"e", "(", "[a"}, {"*"}, {0, 1, 200}, ScanOrders)

SpecList == InitList /\ [][NextList]_vars

\* ------------------------------------------------------------------------
\* SpecSummary: _summarize_text on short and long texts
\* ------------------------------------------------------------------------
SummaryCalls == 1
MaxTextLines == 3

TextLines == {"def f():", "x = 1", "return x"}

\* 30 lines of 9 characters
LongText == JoinStr("\n", [k \in 1..30 |-> "aaaaaaa" \o ToString(10 + k)])

SummaryTexts ==
    { JoinStr("\n", ls) : ls \in UNION {[1..n -> TextLines] : n \in 1..MaxTextLines} }
    \cup { LongText,
           "# head\nx = 1\ndef g():\ny = 2\nif y:\nz = 3\nreturn z\nw = 4\nv = 5\n# tail" }

SummaryBounds == {10, 20, 100, 200}

InitSummary == InitWith(SummaryCalls)

NextSummary ==
    \/ \E text \in SummaryTexts, m \in SummaryBounds : summarize_text(text, m)

SpecSummary == InitSummary /\ [][NextSummary]_vars

\* ------------------------------------------------------------------------
\* SpecHttp: requests on the two HTTP bindings and the handlers they reach
\* ------------------------------------------------------------------------
HttpCalls == 3

HttpTokens == {<<>>, <<"">>, <<"wrong">>, <<MCP_HTTP_TOKEN>>}

HttpToolCalls ==
    {[tool |-> "read_file", arguments |-> [path |-> "../out/secret"]],
     [tool |-> "read_file", arguments |-> [path |-> "sub/.git/config"]],
     [tool |-> "run_command", arguments |-> [command |-> "rm -rf /"]],
     [tool |-> "reset_context", arguments |-> <<>>],
     [tool |-> "list_files", arguments |-> [pattern |-> "*"]],
     [tool |-> "delete_all", arguments |-> <<>>]}

Authorizations ==
    {<<>>, <<"Basic dXNlcg==">>, <<"Bearer good">>, <<"bearer good">>, <<"Bearer forged">>,
     <<"Bearer otheraud">>, <<"Bearer expired">>}

\* the headers of the requests on the OAuth binding, and whether the JWKS
\* document can be fetched
OauthHeaders ==
    {[origin |-> "https://chatgpt.com", authorization |-> a, jwks |-> TRUE] : a \in Authorizations}
    \cup {[origin |-> "https://evil.example", authorization |-> a, jwks |-> TRUE] :
              a \in {<<>>, <<"Bearer good">>}}
    \cup {[origin |-> "https://chatgpt.com", authorization |-> a, jwks |-> FALSE] :
              a \in {<<>>, <<"Bearer good">>}}

OauthToolCalls ==
    {[tool |-> "read_file", arguments |-> [path |-> "../out/secret"]],
     [tool |-> "delete_all", arguments |-> <<>>]}

InitHttp == InitWith(HttpCalls)

NextHttp ==
    \/ \E token \in HttpTokens, c \in HttpToolCalls : mcp_tool(token, "", c.tool, c.arguments)
    \/ \E h \in OauthHeaders, c \in OauthToolCalls :
           call_tool(h.origin, h.authorization, h.jwks, c.tool, c.arguments)
    \/ tool_handler

SpecHttp == InitHttp /\ [][NextHttp]_vars

\* ------------------------------------------------------------------------
\* SpecReset: reset_context among calls of the three rate classes, on a
\* fresh workspace and on one whose audit log has rotated in earlier runs
\* ------------------------------------------------------------------------
ResetCalls == 4

\* the line run_command leaves for a command that ended with code 0
PastLine(command) ==
    AuditLine(AuditEntry(0, "run_command", << <<"command", JsonStr(command)>> >>, TRUE,
                         << <<"rc", JsonInt(0)>>, <<"ms", JsonInt(0)>>,
                            <<"output_size", JsonInt(0)>> >>))

\* a workspace whose audit log is over MAX_AUDIT_BYTES and has all its backups
RotatedFs ==
    (AUDIT_LOG_PATH :> File(PastLine("git status") \o PastLine("git diff")))
    @@ (BackupPath(1) :> File(PastLine("git log")))
    @@ (BackupPath(2) :> File(PastLine("ls")))
    @@ (BackupPath(3) :> File(PastLine("pwd")))
    @@ InitFs

InitReset == \E F \in {InitFs, RotatedFs} : InitOn(ResetCalls, F, "ok")

NextReset ==
    \/ reset_context
    \/ ReadFileCall({"README.md"}, {FALSE})
    \/ WriteFileCall({"notes.txt"}, {"hello"}, {"create"}, {TRUE}, {TRUE})
    \/ RunCommandCall({1}, {"rm -rf /"})

SpecReset == InitReset /\ [][NextReset]_vars

\* ------------------------------------------------------------------------
\* Properties
\* ------------------------------------------------------------------------
TypeOK ==
    /\ now \in 0..MaxTime
    /\ calls \in 0..budget

\* the latest call
LastCall == hist[Len(hist)]

\* this step is a call of tool op
CallStep(op) == Len(hist') = Len(hist) + 1 /\ hist'[Len(hist')].op = op

\* the call this step makes
NewCall == hist'[Len(hist')]

\* p lies below the workspace root
Inside(p) == Len(p) >= Len(WORKSPACE_DIR) /\ \A k \in 1..Len(WORKSPACE_DIR) : p[k] = WORKSPACE_DIR[k]

\* p is canonical in F: it has no "." or ".." and no symbolic link on its way
Canonical(F, p) ==
    /\ \A k \in 1..Len(p) : p[k] \notin {".", ".."}
    /\ \A k \in 1..Len(p) :
          LET q == [j \in 1..k |-> p[j]] IN q \in DOMAIN F => F[q].kind # "link"

RECURSIVE LinkHops(_, _, _)
\* where n hops along link targets lead from l
LinkHops(F, l, n) ==
    IF n = 0 \/ l \notin DOMAIN F \/ F[l].kind # "link" THEN l
    ELSE LinkHops(F, F[l].target, n - 1)

\* F holds a symbolic link whose targets lead back to it
HasSymlinkLoop(F) ==
    \E l \in DOMAIN F :
        /\ F[l].kind = "link"
        /\ \E n \in 1..Cardinality(DOMAIN F) : LinkHops(F, F[l].target, n - 1) = l

PathTools == {"read_file", "list_files", "write_file"}

\* C1 (as stated): after an admitted call of a tool that takes a path,
\* safe_join has either returned a canonical path inside WORKSPACE_DIR or
\* raised the path-escape PermissionError
C1_Original ==
    (Len(hist) > 0 /\ last.op \in PathTools /\ LastCall.admitted) =>
        \/ last.abs # <<>> /\ Inside(last.abs) /\ Canonical(fs, last.abs)
        \/ last.abs = <<>> /\ last.exc = "PermissionError" /\ last.err = "Path escapes workspace"

\* C1 (amended): safe_join never returns a path outside the workspace: it
\* returns a canonical path inside WORKSPACE_DIR, or raises the path-escape
\* PermissionError, or, on a symlink loop, raises RuntimeError
C1_SafeJoinStaysInside ==
    (Len(hist) > 0 /\ last.op \in PathTools /\ LastCall.admitted) =>
        \/ last.abs # <<>> /\ Inside(last.abs) /\ Canonical(fs, last.abs)
        \/ last.abs = <<>> /\ last.exc = "PermissionError" /\ last.err = "Path escapes workspace"
        \/ last.abs = <<>> /\ last.exc = "RuntimeError" /\ last.err = "Symlink loop"
                           /\ HasSymlinkLoop(fs)

\* a path that leaves the workspace through a symlink and comes back with
\* ".." was resolved to the file inside
C1_Witness ==
    /\ last.op = "read_file"
    /\ last.arg.path = "dl/../ws/README.md"
    /\ last.abs = <<"/", "ws", "README.md">>
    /\ last.exc = "none"

\* the characters the validator refuses
HasDangerousChar(cmd) ==
    \E i \in 1..Len(cmd) : SubSeq(cmd, i, i) \in {";", "&", "|", ">", "<", BQ, "$"}

\* C2: a command string with one of ; & | > < backquote $ is rejected by
\* is_allowed_command, and run_command refuses it, whatever is left when the
\* character is taken out
C2_DangerousRejected ==
    [][(CallStep("run_command") /\ HasDangerousChar(NewCall.arg.command)) =>
          /\ ~is_allowed_command(NewCall.arg.command)
          /\ NewCall.admitted =>
                /\ last'.op = "run_command"
                /\ last'.arg = NewCall.arg
                /\ last'.exc = "PermissionError"
                /\ inv' = inv
                /\ procs' = procs]_vars

\* "git status;" was refused although "git status" is whitelisted
C2_Witness ==
    /\ last.op = "run_command"
    /\ last.arg.command = "git status;"
    /\ last.exc = "PermissionError"
    /\ is_allowed_command("git status")

\* C3 (as stated): no command line handed to the shell holds a command
\* separator: none of ; & | and no line break
C3_SingleInvocation ==
    \A k \in 1..Len(procs) :
        \A i \in 1..Len(procs[k].line) :
            SubSeq(procs[k].line, i, i) \notin {";", "&", "|", "\n"}

\* C4: a command that is_allowed_command rejects makes run_command raise
\* PermissionError with no process spawned and nothing registered with the
\* watcher; a run_command that returns returns a record with a returncode
C4_RejectedBeforeSpawn ==
    [][/\ (CallStep("run_command") /\ NewCall.admitted
              /\ ~is_allowed_command(NewCall.arg.command)) =>
             /\ last'.op = "run_command"
             /\ last'.arg = NewCall.arg
             /\ last'.exc = "PermissionError"
             /\ procs' = procs
             /\ watcher' = watcher
             /\ inv' = inv
       /\ (last' # last /\ last'.op = "run_command" /\ last'.exc = "none") =>
             /\ "returncode" \in DOMAIN last'.ret
             /\ is_allowed_command(last'.arg.command)]_vars

\* "git status; rm -rf /" was refused, and later "git status" returned a
\* result with a returncode from the only process ever spawned
C4_Witness ==
    /\ Len(hist) = 2
    /\ hist[1].arg.command = "git status; rm -rf /"
    /\ hist[1].admitted
    /\ last.op = "run_command"
    /\ last.arg.command = "git status"
    /\ last.exc = "none"
    /\ last.ret.returncode = 0
    /\ Len(procs) = 1
    /\ Len(watcher.command_history) = 1

\* the audit log and its numbered backups
AuditFiles == {AUDIT_LOG_PATH} \cup {BackupPath(i) : i \in 1..MAX_AUDIT_BACKUPS}

\* the filesystem without the audit files
OutsideAudit(F) == [q \in (DOMAIN F) \ AuditFiles |-> F[q]]

\* C5 (as stated): write_file with require_confirmation=true leaves the
\* filesystem as it was
C5_Original ==
    [][(CallStep("write_file") /\ NewCall.arg.require_confirmation) => fs' = fs]_vars

\* C5 (amended): write_file with require_confirmation=true creates, modifies
\* and deletes no file or directory other than the audit log and its
\* numbered backups, and what it returns is the WRITE_PREVIEW plan
C5_PreviewKeepsFiles ==
    [][(CallStep("write_file") /\ NewCall.arg.require_confirmation) =>
          /\ OutsideAudit(fs') = OutsideAudit(fs)
          /\ last'.op = "write_file"
          /\ last'.arg = NewCall.arg
          /\ last'.exc \in {"none", "RuntimeError", "PermissionError"}
          /\ last'.exc = "none" => Contains(last'.ret, "\"WRITE_PREVIEW\"")]_vars

\* two previews of a new file were returned: the file is not there, the
\* audit log is
C5_Witness ==
    /\ Len(hist) = 2
    /\ \A k \in 1..2 : /\ hist[k].op = "write_file"
                       /\ hist[k].arg.require_confirmation
                       /\ hist[k].arg.path = "notes.txt"
                       /\ hist[k].admitted
    /\ last.exc = "none"
    /\ Contains(last.ret, "\"WRITE_PREVIEW\"")
    /\ <<"/", "ws", "notes.txt">> \notin DOMAIN fs
    /\ AUDIT_LOG_PATH \in DOMAIN fs

\* C6 (as stated): an admitted write_file with require_confirmation=false
\* and mode "create" writes exactly the content when the target does not
\* exist, and raises FileExistsError and keeps the file when it does
C6_CreateOnlyNew ==
    [][(CallStep("write_file") /\ NewCall.admitted
           /\ ~NewCall.arg.require_confirmation /\ NewCall.arg.mode = "create") =>
          LET target == WORKSPACE_DIR \o PathParts(NewCall.arg.path)
          IN  IF target \notin DOMAIN fs
              THEN /\ last'.exc = "none"
                   /\ target \in DOMAIN fs'
                   /\ fs'[target].kind = "file"
                   /\ fs'[target].content = NewCall.arg.content
              ELSE /\ last'.exc = "FileExistsError"
                   /\ fs'[target] = fs[target]]_vars

\* the allow() calls of the limiter
AllowCalls == {k \in 1..Len(hist) : hist[k].op = "allow"}

\* the admitted calls before call k that are less than W seconds old at k
RecentAdmitted(k) ==
    {j \in AllowCalls : j < k /\ hist[j].admitted /\ hist[k].t - hist[j].t < RateWindow}

\* C7: once N calls were admitted within the last W seconds the next
\* allow() is denied, and neither the recorded events of the trailing window
\* nor the calls admitted within any window are ever more than N
C7_QuotaHolds ==
    /\ \A k \in AllowCalls :
          Cardinality(RecentAdmitted(k)) >= ReadMaxOps => ~hist[k].admitted
    /\ \A k \in AllowCalls :
          Cardinality({j \in RecentAdmitted(k) \cup {k} : hist[j].admitted}) <= ReadMaxOps
    /\ Cardinality({i \in 1..Len(events.read) : now - events.read[i] < RateWindow}) <= ReadMaxOps

\* N calls were admitted and the next one, within the window, was denied
C7_Witness ==
    \E k \in AllowCalls :
        /\ Cardinality(RecentAdmitted(k)) = ReadMaxOps
        /\ ~hist[k].admitted

\* the times of the admitted calls, in call order
RECURSIVE AdmittedTimes(_)
AdmittedTimes(k) ==
    IF k = 0 THEN <<>>
    ELSE IF hist[k].op = "allow" /\ hist[k].admitted
    THEN Append(AdmittedTimes(k - 1), hist[k].t)
    ELSE AdmittedTimes(k - 1)

\* C8: a call is admitted exactly when fewer than N admitted calls are less
\* than W old, so each admitted call gives its slot back when it reaches the
\* age W; the limiter records the admitted calls only
C8_SlotRestored ==
    /\ \A k \in AllowCalls :
          hist[k].admitted <=> Cardinality(RecentAdmitted(k)) < ReadMaxOps
    /\ IF Len(hist) = 0 THEN events.read = <<>>
       ELSE events.read = SelectSeq(AdmittedTimes(Len(hist)),
                                    LAMBDA e : LastCall.t - e < RateWindow)

\* at quota a call was denied; a later call was admitted when the oldest
\* admitted call had aged out and another one was still in the window
C8_Witness ==
    \E k, m \in AllowCalls :
        /\ k < m
        /\ ~hist[k].admitted
        /\ hist[m].admitted
        /\ Cardinality(RecentAdmitted(k)) = ReadMaxOps
        /\ Cardinality(RecentAdmitted(m)) = ReadMaxOps - 1
        /\ RecentAdmitted(m) # {}

\* the rate class of each tool
ClassOf(op) ==
    IF op \in {"read_file", "list_files", "search_code"} THEN "read"
    ELSE IF op = "write_file" THEN "write"
    ELSE "command"

QuotaOf(class) ==
    IF class = "read" THEN ReadMaxOps ELSE IF class = "write" THEN WriteMaxOps ELSE CmdMaxOps

Tools == {"read_file", "list_files", "search_code", "write_file", "run_command"}

\* the admitted calls of the class of call k before it, since the last
\* reset and less than W old
Counted(k) ==
    {j \in 1..(k - 1) :
        /\ hist[j].op \in Tools
        /\ ClassOf(hist[j].op) = ClassOf(hist[k].op)
        /\ hist[j].admitted
        /\ hist[k].t - hist[j].t < RateWindow
        /\ \A m \in j..k : hist[m].op # "reset_context"}

\* C9: read_file, list_files and search_code are admitted against one
\* count: a call of any of them is refused with RuntimeError exactly when
\* max_ops read-class calls were admitted in the window, whatever became of
\* them; write_file and run_command are counted each on its own
C9_SharedReadLimiter ==
    /\ \A k \in 1..Len(hist) :
          hist[k].op \in Tools =>
              (hist[k].admitted <=> Cardinality(Counted(k)) < QuotaOf(ClassOf(hist[k].op)))
    /\ (Len(hist) > 0 /\ LastCall.op \in Tools /\ ~LastCall.admitted
           /\ last.op = LastCall.op /\ last.arg = LastCall.arg) =>
          last.exc = "RuntimeError"

\* a read_file and a failed search_code used up the read quota, list_files
\* was refused, and write_file was still admitted
C9_Witness ==
    /\ Len(hist) = 4
    /\ hist[1].op = "read_file" /\ hist[1].admitted
    /\ hist[2].op = "search_code" /\ hist[2].admitted
    /\ hist[3].op = "list_files" /\ ~hist[3].admitted
    /\ hist[4].op = "write_file" /\ hist[4].admitted
    /\ last.op = "write_file" /\ last.exc = "none"

\* the directories whose content the denylist hides, and the file names it
\* hides, as the patterns of READ_DENYLIST name them
DeniedDirs == {".git", ".svn", ".hg", "node_modules", ".venv", "venv", ".tox", ".cache", ".ssh"}

DeniedPath(rel) ==
    \/ \E k \in 1..(Len(rel) - 1) : rel[k] \in DeniedDirs
    \/ Len(rel) > 0 /\ StartsWith(rel[Len(rel)], ".env")

\* C10 (as stated): read_file of an existing file under a denied directory
\* at any depth, or named .env* at any depth, raises the denylisted
\* PermissionError unless allow_denied_explicit is set; read_file of
\* README.md returns its text
C10_DenylistBlocks ==
    /\ (/\ Len(hist) > 0 /\ last.op = "read_file" /\ LastCall.admitted
        /\ last.abs # <<>> /\ last.abs \in DOMAIN fs /\ fs[last.abs].kind = "file"
        /\ DeniedPath(relative_to(last.abs, WORKSPACE_DIR))
        /\ ~last.arg.allow_denied_explicit) =>
          last.exc = "PermissionError" /\ last.err = "Path is denylisted"
    /\ (/\ Len(hist) = 1 /\ last.op = "read_file"
        /\ last.arg.path = "README.md") =>
          last.exc = "none" /\ last.ret = "Hello Workspace"

\* the entries a walk below base meets: every directory on the way from base
\* to the entry is a real directory
Walked(F, base) ==
    {q \in DOMAIN F :
        /\ Len(q) > Len(base)
        /\ SubSeq(q, 1, Len(base)) = base
        /\ \A k \in Len(base)..(Len(q) - 1) : F[SubSeq(q, 1, k)].kind = "dir"}

\* the files below base that pass the pattern and the denylist filter
Matching(F, base, pattern, include_denied) ==
    {q \in Walked(F, base) :
        /\ is_file(F, q)
        /\ fnmatch(RelPosix(q), pattern)
        /\ include_denied \/ ~_denylisted(RelPosix(q))}

\* C11 (as stated): a list_files call that returns returns exactly
\* min(max_results, number of files passing the pattern and the denylist
\* filter) entries, for every max_results >= 0
C11_ExactCount ==
    [][(CallStep("list_files") /\ last'.op = "list_files" /\ last'.arg = NewCall.arg
           /\ last'.exc = "none" /\ NewCall.arg.max_results >= 0) =>
          Len(last'.ret) =
             Min(NewCall.arg.max_results,
                 Cardinality(Matching(fs, last'.abs, NewCall.arg.pattern,
                                      NewCall.arg.include_denied)))]_vars

\* C12 (as stated): a search_code call that returns without summarizing
\* returns at most max_results hits
C12_BoundedHits ==
    [][(CallStep("search_code") /\ last'.op = "search_code" /\ last'.arg = NewCall.arg
           /\ last'.exc = "none" /\ ~should_summarize(tracker.current_chars)) =>
          Len(last'.ret) <= NewCall.arg.max_results]_vars

\* queries re.compile rejects
InvalidQueries == {"(", "[a"}

\* C13: an admitted search_code call whose query is no valid regular
\* expression raises ValueError without having walked the workspace, read a
\* file, written the audit log or touched the context counter
C13_InvalidPatternFirst ==
    [][(CallStep("search_code") /\ NewCall.admitted
           /\ NewCall.arg.query \in InvalidQueries) =>
          /\ last'.op = "search_code"
          /\ last'.arg = NewCall.arg
          /\ last'.exc = "ValueError"
          /\ ~last'.traversed
          /\ fs' = fs
          /\ audited' = audited
          /\ tracker' = tracker]_vars

\* after a search that walked the tree, a search for "(" raised ValueError
\* without a walk
C13_Witness ==
    /\ Len(hist) = 2
    /\ hist[1].op = "search_code"
    /\ hist[1].arg.query = "e"
    /\ Len(audited) = 1
    /\ last.op = "search_code"
    /\ last.arg.query = "("
    /\ last.exc = "ValueError"
    /\ ~last.traversed

\* C14 (as stated): _summarize_text returns a text of at most max_chars
\* characters that holds the first and the last line of an input longer than
\* max_chars, and returns a shorter input unchanged
C14_SummaryBounded ==
    last.op = "_summarize_text" =>
        LET text  == last.arg.text
            lines == splitlines(text)
        IN  IF Len(text) <= last.arg.max_chars
            THEN last.exc = "none" /\ last.ret = text
            ELSE /\ last.exc = "none"
                 /\ Len(last.ret) <= last.arg.max_chars
                 /\ Contains(last.ret, lines[1])
                 /\ Contains(last.ret, lines[Len(lines)])

\* the run_command calls that got as far as creating a subprocess
SpawningCalls(h) ==
    {k \in 1..Len(h) : h[k].op = "run_command" /\ h[k].admitted
                           /\ is_allowed_command(h[k].arg.command)}

\* C15 (as stated): a run_command call leaves its wait for the subprocess
\* either with a result or, once timeout_seconds have passed, by killing the
\* process; after the kill it returns only when the process has exited, with
\* TimeoutError naming timeout_seconds, recorded once; no call spawns a
\* second subprocess
C15_TimeoutReported ==
    [][/\ \A i \in 1..MaxInv :
             /\ (inv[i].pc = "wait" /\ inv'[i].pc = "idle") =>
                    /\ last'.op = "run_command"
                    /\ last'.arg = inv[i].arg
                    /\ last'.exc = "none"
             /\ (inv[i].pc = "wait" /\ inv'[i].pc = "kill_wait") =>
                    /\ now - inv[i].t0 >= inv[i].timeout_seconds
                    /\ procs'[inv[i].proc].state = "killed"
                    /\ last' = last
             /\ (inv[i].pc = "kill_wait" /\ inv'[i].pc # "kill_wait") =>
                    /\ inv'[i].pc = "idle"
                    /\ procs[inv[i].proc].state = "killed"
                    /\ procs'[inv[i].proc].state = "exited"
                    /\ last'.op = "run_command"
                    /\ last'.arg = inv[i].arg
                    /\ last'.exc = "TimeoutError"
                    /\ last'.err = "Command timed out after "
                                      \o ToString(inv[i].timeout_seconds) \o " seconds"
                    /\ Len(watcher'.command_history) = Len(watcher.command_history) + 1
                    /\ Len(procs') = Len(procs)
       /\ Len(procs') <= Cardinality(SpawningCalls(hist'))]_vars


\* the step ends an operation with a security-relevant error: PermissionError
\* of a tool (path escape, denylisted path, command not whitelisted) or the
\* 401 of the token binding
SecurityFailure ==
    /\ hist' # hist
    /\ \/ last'.op \in {"read_file", "run_command"} /\ last'.exc = "PermissionError"
       \/ /\ last'.op = "http" /\ last'.arg.binding = "token"
          /\ last'.ret.status = 401

\* C16: every operation that fails with a security-relevant error (path
\* escape, denylisted path, command rejected by the whitelist, invalid token
\* on the token binding) surfaces the error and appends an audit entry with
\* ok = false for that operation
C16_SecurityFailureAudited ==
    [][SecurityFailure =>
          /\ Len(audited') = Len(audited) + 1
          /\ ~audited'[Len(audited')].ok
          /\ audited'[Len(audited')].tool = (IF last'.op = "http" THEN "http_mcp" ELSE last'.op)]_vars


\* the lines of an audit file, none when the file is absent
FileLines(F, p) == IF is_file(F, p) THEN splitlines(NodeAt(F, p).content) ELSE <<>>

\* the lines of the backups from the oldest down to backup i
RECURSIVE BackupLines(_, _)
BackupLines(F, i) ==
    IF i > MAX_AUDIT_BACKUPS THEN <<>>
    ELSE BackupLines(F, i + 1) \o FileLines(F, BackupPath(i))

\* every audit entry on disk, oldest first
AuditLines(F) == BackupLines(F, 1) \o FileLines(F, AUDIT_LOG_PATH)

RateLimited == {"read_file", "write_file", "run_command"}

\* a call that follows reset_context at once
FirstAfterReset ==
    /\ Len(hist') = Len(hist) + 1
    /\ hist # <<>> /\ hist[Len(hist)].op = "reset_context"
    /\ hist'[Len(hist')].op \in RateLimited

\* what reset_context does to the counter and to the limiters: the context
\* counter is 0, no limiter holds an event, each limiter admits a call at any
\* later time under the max_ops and window of RATE_LIMITS, and the call that
\* follows is admitted
ResetClears ==
    /\ CallStep("reset_context") =>
          /\ tracker'.current_chars = 0
          /\ tracker'.summaries = tracker.summaries
          /\ \A c \in Classes : events'[c] = <<>>
          /\ \A op \in RateLimited, t \in now..MaxTime : RateCheck(events', op, t).ok
          /\ last'.exc = "none" /\ last'.ret.previous_chars = tracker.current_chars
    /\ FirstAfterReset => hist'[Len(hist')].admitted

\* C18 (as stated): reset_context sets the context counter to 0 and clears the
\* events of the three rate limiters, so that the next call of each class is
\* admitted, and every audit entry that was on disk is still there, unchanged
C18_Original ==
    [][/\ ResetClears
       /\ CallStep("reset_context") => IsPrefix(AuditLines(fs), AuditLines(fs'))]_vars

\* C18: reset_context sets the context counter to 0 and clears the events of
\* the three rate limiters, so that the next call of each class is admitted
\* under the unchanged max_ops and window; it appends its own audit line and
\* keeps every audit entry on disk in order, except that the rotation its
\* audit write may trigger discards the entries of the oldest backup
C18_ResetClearsWindows ==
    [][/\ ResetClears
       /\ CallStep("reset_context") =>
             LET old == AuditLines(fs)
                 oldest == FileLines(fs, BackupPath(MAX_AUDIT_BACKUPS))
                 line == splitlines(AuditLine(audited'[Len(audited')]))
             IN  /\ Len(audited') = Len(audited) + 1
                 /\ audited'[Len(audited')].tool = "reset_context"
                 /\ \/ AuditLines(fs') = old \o line
                    \/ /\ Len(NodeAt(fs, AUDIT_LOG_PATH).content) > MAX_AUDIT_BYTES
                       /\ AuditLines(fs') = SubSeq(old, Len(oldest) + 1, Len(old)) \o line]_vars

\* a command was refused by its limiter, reset_context ran, and the command
\* that followed was admitted
C18_Witness ==
    /\ Len(hist) >= 3
    /\ hist[Len(hist)].op = "run_command" /\ hist[Len(hist)].admitted
    /\ hist[Len(hist) - 1].op = "reset_context"
    /\ hist[Len(hist) - 2].op = "run_command" /\ ~hist[Len(hist) - 2].admitted
    /\ hist[Len(hist)].t - hist[Len(hist) - 2].t < RateWindow


\* the request carries no credential the binding accepts: on the token
\* binding no token or one that differs from the configured token, on the
\* OAuth binding no bearer header, an ill-formed one, or a bearer token other
\* than the one JWT the identity provider issued for this audience
AuthFails(req) ==
    IF req.binding = "token" THEN req.token # <<MCP_HTTP_TOKEN>>
    ELSE req.authorization \notin {<<"Bearer good">>, <<"bearer good">>}

\* a tool handler starts in this step
HandlerRuns == Len(hist') = Len(hist) + 1 /\ hist'[Len(hist')].op # "http"

\* a handler runs only for the pending request, whose credential was accepted
HandlersBehindAuth ==
    HandlerRuns =>
        /\ Pending /\ ~AuthFails(last.arg)
        /\ hist'[Len(hist')].op = last.arg.tool

\* a rejected request ends in the step that receives it and touches nothing
\* but the audit log
RejectedAtOnce ==
    (CallStep("http") /\ AuthFails(last'.arg)) =>
        /\ ~last'.ret.pending
        /\ UNCHANGED <<events, tracker, watcher, inv, procs>>
        /\ OutsideAudit(fs') = OutsideAudit(fs)

C20_UnknownTool404 ==
    [][(/\ CallStep("http")
        /\ hist'[Len(hist')].admitted
        /\ last'.arg.tool \notin tool_handlers) =>
          /\ last'.ret.status = 404
          /\ ~last'.ret.pending]_vars


\* ------------------------------------------------------------------------
\* SpecAudit: one operation (write_file called directly, or a request of the
\* token binding with the handler it reaches: read_file, list_files,
\* run_command, reset_context) is run from the same state twice, first on a
\* disk where write_audit fails, then on a working disk
\* ------------------------------------------------------------------------
AuditCalls == 2

Snapshot ==
    [fs |-> fs, now |-> now, events |-> events, tracker |-> tracker, watcher |-> watcher,
     inv |-> inv, procs |-> procs, audited |-> audited, last |-> last, hist |-> hist,
     calls |-> calls]

\* the calls made since the snapshot
CallsSince ==
    [k \in 1..(Len(hist) - Len(probe.saved.hist)) |->
        [op |-> hist[Len(probe.saved.hist) + k].op, arg |-> hist[Len(probe.saved.hist) + k].arg]]

\* what the caller and the later calls can see of the operation
Observed ==
    [calls |-> CallsSince, last |-> last, tracker |-> tracker, events |-> events,
     files |-> OutsideAudit(fs)]

\* the disk starts to fail; the state is remembered
probe_arm ==
    /\ probe.phase = "idle" /\ ~Pending /\ calls < budget
    /\ probe' = [phase |-> "failing", saved |-> Snapshot]
    /\ disk' = "failing"
    /\ UNCHANGED <<fs, now, events, tracker, watcher, inv, procs, audited, last, hist, calls, budget,
                   audit_log, log_events, sys_stderr, jwks_cache, metrics>>

\* the operation has ended on the failing disk: what it did is recorded, the
\* remembered state is put back and the disk works again
probe_rewind ==
    /\ probe.phase = "failing" /\ ~Pending /\ Len(hist) > Len(probe.saved.hist)
    /\ probe' = [phase |-> "working", saved |-> probe.saved, first |-> Observed]
    /\ disk' = "ok"
    /\ fs' = probe.saved.fs /\ now' = probe.saved.now /\ events' = probe.saved.events
    /\ tracker' = probe.saved.tracker /\ watcher' = probe.saved.watcher
    /\ inv' = probe.saved.inv /\ procs' = probe.saved.procs
    /\ audited' = probe.saved.audited /\ last' = probe.saved.last
    /\ hist' = probe.saved.hist /\ calls' = probe.saved.calls
    /\ UNCHANGED <<budget, audit_log, log_events, sys_stderr, jwks_cache, metrics>>

\* the operation has ended on the working disk: the gateway goes on from there
probe_settle ==
    /\ probe.phase = "working" /\ ~Pending /\ Len(hist) > Len(probe.saved.hist)
    /\ probe' = NoProbe
    /\ UNCHANGED <<fs, now, events, tracker, watcher, inv, procs, audited, last, hist, calls,
                   budget, disk, audit_log, log_events, sys_stderr, jwks_cache, metrics>>

\* no operation has started since the snapshot
Fresh == IF probe.phase = "idle" THEN TRUE ELSE Len(hist) = Len(probe.saved.hist)

InitAudit == InitWith(AuditCalls)

NextAudit ==
    \/ Fresh /\ ~Pending /\ WriteFileCall({"notes.txt"}, {"hello"}, {"create"}, BOOLEAN, {TRUE})
    \/ /\ Fresh
       /\ \E token \in {<<"wrong">>, <<MCP_HTTP_TOKEN>>}, c \in HttpToolCalls :
              mcp_tool(token, "", c.tool, c.arguments)
    \/ tool_handler
    \/ probe_arm
    \/ probe_rewind
    \/ probe_settle

SpecAudit == InitAudit /\ [][NextAudit]_vars

\* the operation run on the working disk is the one that was run on the
\* failing disk, and it has ended
Replayed ==
    /\ probe.phase = "working" /\ ~Pending
    /\ Len(CallsSince) = Len(probe.first.calls)
    /\ \A k \in 1..Len(CallsSince) :
           /\ CallsSince[k].op = probe.first.calls[k].op
           /\ CallsSince[k].arg = probe.first.calls[k].arg

\* both runs ended in the same result or error and left the same context
\* counter, limiter events and files outside the audit log
SameOutcome ==
    /\ last = probe.first.last
    /\ tracker = probe.first.tracker
    /\ events = probe.first.events
    /\ OutsideAudit(fs) = probe.first.files

\* C17: for every gateway operation and every input the result returned or
\* the error raised is the same whether the audit write and the rotation
\* succeed or fail (write_audit never raises): an operation run from the same
\* state on a failing disk and on a working disk ends in the same outcome
C17_AuditNonInterfering == Replayed => SameOutcome

\* ------------------------------------------------------------------------
\* The evidence audit trail of the web application (src/app):
\* DigitalEvidenceAuditor over AuditRepository
\* ------------------------------------------------------------------------
\* "0"*64
ZERO_HASH == "0000000000000000000000000000000000000000000000000000000000000000"

\* json.dumps(obj, sort_keys=True) of an entry without its hash; a hex digest
\* holds no character that json.dumps escapes, so previous_hash is only quoted
HashPayload(e) ==
    JsonObj(<< <<"case_id", JsonStr(e.case_id)>>, <<"details", JsonObj(e.details)>>,
               <<"event_type", JsonStr(e.event_type)>>,
               <<"previous_hash", "\"" \o e.previous_hash \o "\"">>,
               <<"timestamp", JsonStr(e.timestamp)>>, <<"user_id", JsonStr(e.user_id)>> >>)

\* sha256_hex of a dict: the digest stands for its payload (no two payloads
\* share a digest, and no digest is 64 zeros)
sha256_hex(e) == "sha256:" \o HashPayload(e)

\* utc_now_iso()
utc_now_iso == "T+" \o ToString(now)

\* AuditRepository.last_hash
last_hash(rows) == IF rows = <<>> THEN ZERO_HASH ELSE rows[Len(rows)].hash

\* the fields of a row other than hash
WithoutHash(row) ==
    [timestamp |-> row.timestamp, event_type |-> row.event_type, user_id |-> row.user_id,
     case_id |-> row.case_id, details |-> row.details, previous_hash |-> row.previous_hash]

\* the loop of verify_chain_integrity from row k on, prev being the hash of
\* the row before
RECURSIVE VerifyFrom(_, _, _)
VerifyFrom(rows, k, prev) ==
    IF k > Len(rows) THEN TRUE
    ELSE IF sha256_hex(WithoutHash(rows[k])) # rows[k].hash \/ rows[k].previous_hash # prev
    THEN FALSE
    ELSE VerifyFrom(rows, k + 1, rows[k].hash)

\* DigitalEvidenceAuditor.verify_chain_integrity over repo.all()
verify_chain_integrity(rows) == VerifyFrom(rows, 1, ZERO_HASH)

\* log_event is called: the coroutine runs up to the query of repo.last_hash()
log_event(t, event_type, user_id, case_id, details) ==
    /\ log_events[t].pc = "idle"
    /\ log_events' = [log_events EXCEPT ![t] =
           [pc |-> "last_hash", event_type |-> event_type, user_id |-> user_id,
            case_id |-> case_id, details |-> details]]
    /\ UNCHANGED <<fs, now, events, tracker, watcher, inv, procs, audited, last, hist, calls,
                   budget, disk, probe, audit_log, sys_stderr, jwks_cache, metrics>>

\* the query of last_hash is answered (line 10)
log_event_last_hash(t) ==
    /\ log_events[t].pc = "last_hash"
    /\ log_events' = [log_events EXCEPT ![t] =
           [pc |-> "append", event_type |-> log_events[t].event_type,
            user_id |-> log_events[t].user_id, case_id |-> log_events[t].case_id,
            details |-> log_events[t].details, prev_hash |-> last_hash(audit_log)]]
    /\ UNCHANGED <<fs, now, events, tracker, watcher, inv, procs, audited, last, hist, calls,
                   budget, disk, probe, audit_log, sys_stderr, jwks_cache, metrics>>

\* the coroutine goes on: it builds the entry and repo.append commits the
\* row (lines 11-22)
log_event_append(t) ==
    /\ log_events[t].pc = "append"
    /\ LET base == [timestamp |-> utc_now_iso, event_type |-> log_events[t].event_type,
                    user_id |-> log_events[t].user_id, case_id |-> log_events[t].case_id,
                    details |-> log_events[t].details,
                    previous_hash |-> log_events[t].prev_hash]
           entry == [timestamp |-> base.timestamp, event_type |-> base.event_type,
                     user_id |-> base.user_id, case_id |-> base.case_id,
                     details |-> base.details, previous_hash |-> base.previous_hash,
                     hash |-> sha256_hex(base)]
       IN  audit_log' = Append(audit_log, entry)
    /\ log_events' = [log_events EXCEPT ![t] = IdleTask]
    /\ UNCHANGED <<fs, now, events, tracker, watcher, inv, procs, audited, last, hist, calls,
                   budget, disk, probe, sys_stderr, jwks_cache, metrics>>

\* ------------------------------------------------------------------------
\* SpecChain: log_event coroutines of one process, interleaving at their awaits
\* ------------------------------------------------------------------------
ChainRows == 3

InitChain == InitWith(0)

NextChain ==
    \/ \E t \in 1..MaxTasks, event_type \in {"E1", "E2"},
          details \in {<< <<"x", JsonInt(1)>> >>, << <<"y", JsonInt(2)>> >>} :
           /\ Len(audit_log) + Cardinality({u \in 1..MaxTasks : log_events[u].pc # "idle"}) < ChainRows
           /\ log_event(t, event_type, "u", "c", details)
    \/ \E t \in 1..MaxTasks : log_event_last_hash(t)
    \/ \E t \in 1..MaxTasks : log_event_append(t)
    \/ Tick

SpecChain == InitChain /\ [][NextChain]_vars

\* C21: after any sequence of log_event calls, interleaved or not,
\* verify_chain_integrity() returns true: every stored entry's previous_hash is
\* the hash of the entry stored just before it (64 zeros for the first) and
\* its hash is the SHA-256 of its other fields
C21_ChainIntegrity == verify_chain_integrity(audit_log)

\* the workspace-relative names the last call returned after walking the tree
ReturnedNames ==
    IF last.exc # "none" \/ ~last.traversed THEN {}
    ELSE IF last.op = "list_files" THEN {last.ret[k] : k \in 1..Len(last.ret)}
    ELSE IF last.op = "search_code"
    THEN {last.ret[k].file : k \in {j \in 1..Len(last.ret) : "file" \in DOMAIN last.ret[j]}}
    ELSE {}

\* C22: every file whose name or content list_files or search_code returns
\* after walking the tree, symlinks included, has a canonical
\* (symlink-resolved) path inside WORKSPACE_DIR
C22_TraversalStaysInside ==
    \A rel \in ReturnedNames :
        LET r == resolve(fs, joinpath(WORKSPACE_DIR, PathParts(rel)))
        IN  r.exc = "none" /\ Inside(r.path)

\* C23: list_files with include_denied=false returns no path that matches the
\* read denylist, and search_code returns no hit from a file that matches it,
\* at any directory depth, directly under the workspace root included
C23_TraversalDenylist ==
    (last.op = "list_files" => ~last.arg.include_denied) =>
        \A rel \in ReturnedNames : ~DeniedPath(PathParts(rel))

\* ------------------------------------------------------------------------
\* SpecLog: tool calls that write audit lines, and write_file called on the
\* path of the audit log
\* ------------------------------------------------------------------------
LogCalls == 4

InitLog == InitWith(LogCalls)

NextLog ==
    \/ ReadFileCall({"README.md", "src/a.py", "missing.txt"}, {FALSE})
    \/ WriteFileCall({".mcp_audit.log"}, {"", "{\"forged\": 1}\n"}, {"replace", "append"},
                     {FALSE}, {TRUE})

SpecLog == InitLog /\ [][NextLog]_vars

\* the lines write_audit has written, in call order
WrittenLines == [k \in 1..Len(audited) |-> splitlines(AuditLine(audited[k]))[1]]

\* s is the end of t
IsSuffix(s, t) == Len(s) <= Len(t) /\ SubSeq(t, Len(t) - Len(s) + 1, Len(t)) = s

\* C24: within one process the audit log is append-only and keeps the order
\* of the write_audit calls: the lines on disk, backups first, are lines
\* write_audit wrote, unmodified and in call order (the oldest may be gone)
C24_AppendOnly == IsSuffix(AuditLines(fs), WrittenLines)

\* the content of an audit file, "" when the file is absent
FileText(F, p) == IF is_file(F, p) THEN NodeAt(F, p).content ELSE ""

\* the audit files there are
AuditFilesOf(F) ==
    {p \in DOMAIN F : Len(p) = Len(AUDIT_LOG_PATH)
                      /\ SubSeq(p, 1, Len(p) - 1) = SubSeq(AUDIT_LOG_PATH, 1, Len(p) - 1)
                      /\ StartsWith(p[Len(p)], AUDIT_LOG_PATH[Len(AUDIT_LOG_PATH)])}

\* write_audit found the live log over the threshold
OverThreshold(F) == Len(FileText(F, AUDIT_LOG_PATH)) > MAX_AUDIT_BYTES

\* this step is one write_audit call that wrote its line
Appended == Len(audited') = Len(audited) + 1

NewLine == AuditLine(audited'[Len(audited')])

\* C25: when write_audit finds the live log over the byte threshold it shifts
\* backup 2 to 3 and backup 1 to 2, moves the live log to backup 1 and starts
\* a fresh live log with the new entry, otherwise it appends to the live log
\* and leaves the backups alone; there are never more than 3 numbered
\* backups, only the content of the oldest backup is discarded, and every
\* entry is in one file only
C25_Rotation ==
    [][Appended =>
        /\ IF OverThreshold(fs)
           THEN /\ FileText(fs', AUDIT_LOG_PATH) = NewLine
                /\ FileText(fs', BackupPath(1)) = FileText(fs, AUDIT_LOG_PATH)
                /\ is_file(fs, BackupPath(1)) =>
                       FileText(fs', BackupPath(2)) = FileText(fs, BackupPath(1))
                /\ is_file(fs, BackupPath(2)) =>
                       FileText(fs', BackupPath(3)) = FileText(fs, BackupPath(2))
                /\ AuditLines(fs') =
                       SubSeq(AuditLines(fs),
                              (IF is_file(fs, BackupPath(2))
                               THEN Len(FileLines(fs, BackupPath(3))) ELSE 0) + 1,
                              Len(AuditLines(fs))) \o splitlines(NewLine)
           ELSE /\ FileText(fs', AUDIT_LOG_PATH) = FileText(fs, AUDIT_LOG_PATH) \o NewLine
                /\ \A i \in 1..MAX_AUDIT_BACKUPS :
                       FileText(fs', BackupPath(i)) = FileText(fs, BackupPath(i))
        /\ AuditFilesOf(fs') \subseteq AuditFiles
    ]_vars

\* a full set of backups was rotated: the live log became backup 1, backup 2
\* became backup 3, the former backup 3 is gone and the live log holds the
\* new entry only
C25_Witness ==
    /\ Len(audited) = 1
    /\ FileText(fs, BackupPath(1)) = FileText(RotatedFs, AUDIT_LOG_PATH)
    /\ FileText(fs, BackupPath(3)) = FileText(RotatedFs, BackupPath(2))
    /\ FileText(fs, AUDIT_LOG_PATH) = AuditLine(audited[1])

\* the elements of a sequence
Range(q) == {q[k] : k \in 1..Len(q)}

\* every status an ActiveCommand has been given, the commands that have
\* ended included
StatusesGiven ==
    UNION ({Range(watcher.active_commands[c].held) : c \in DOMAIN watcher.active_commands}
           \cup {Range(h.held) : h \in Range(watcher.command_history)})

\* C26 (as stated): at every moment the status of every ActiveCommand is one
\* of spawning, executing, completed, timeout, error
C26_Original == StatusesGiven \subseteq {"spawning", "executing", "completed", "timeout", "error"}

\* C26: the status of every ActiveCommand is one of running, modified,
\* spawning, executing, completed, timeout (start_command files it as
\* running, the --no-pager rewrite as modified; error is never given), and
\* whenever run_command is suspended it is one of spawning, executing, timeout
C26_StatusSet ==
    /\ StatusesGiven \subseteq {"running", "modified", "spawning", "executing", "completed", "timeout"}
    /\ \A c \in DOMAIN watcher.active_commands :
           watcher.active_commands[c].status \in {"spawning", "executing", "timeout"}

\* a command that was rewritten is being executed
C26_Witness ==
    \E c \in DOMAIN watcher.active_commands :
        /\ watcher.active_commands[c].held = <<"running", "modified", "spawning", "executing">>
        /\ watcher.active_commands[c].status = "executing"

\* the statuses the command that ended in this step had been given
EndedHeld == watcher'.command_history[Len(watcher'.command_history)].held

\* invocation i ends in this step, after its command was validated
EndsValidated(i) == inv[i].pc \in {"spawn", "wait", "kill_wait"} /\ inv'[i].pc = "idle"

\* C27: every run_command invocation goes CREATED, VALIDATING, then REJECTED
\* or SPAWNING, then EXECUTING, then exactly one of COMPLETED, TIMEOUT, ERROR:
\* the states come in this order only, EXECUTING is entered with a spawned
\* process, a terminal state is not left (an invocation that entered TIMEOUT
\* ends with TimeoutError, one that entered COMPLETED returns), and a failure
\* after validation ends in ERROR
C27_StateMachine ==
    [][\A i \in 1..MaxInv :
          /\ inv[i].pc = "idle" => inv'[i].pc \in {"idle", "spawn"}
          /\ inv[i].pc = "spawn" => inv'[i].pc \in {"spawn", "wait", "idle"}
          /\ inv[i].pc = "wait" => inv'[i].pc \in {"wait", "kill_wait", "idle"}
          /\ inv[i].pc = "kill_wait" => inv'[i].pc \in {"kill_wait", "idle"}
          /\ (CallStep("run_command") /\ NewCall.admitted /\ inv' = inv) =>
                 last'.exc = "PermissionError" /\ procs' = procs
          /\ (inv[i].pc = "idle" /\ inv'[i].pc = "spawn") =>
                 is_allowed_command(inv'[i].original_command)
          /\ (inv[i].pc # "wait" /\ inv'[i].pc = "wait") =>
                 /\ inv'[i].proc \in 1..Len(procs')
                 /\ procs'[inv'[i].proc].state = "running"
                 /\ procs'[inv'[i].proc].by = i
          /\ EndsValidated(i) =>
                 /\ Len(watcher'.command_history) = Len(watcher.command_history) + 1
                 /\ \/ /\ last'.exc = "none"
                       /\ "completed" \in Range(EndedHeld) /\ "timeout" \notin Range(EndedHeld)
                    \/ /\ last'.exc = "TimeoutError"
                       /\ "timeout" \in Range(EndedHeld) /\ "completed" \notin Range(EndedHeld)
                    \/ /\ last'.exc \notin {"none", "TimeoutError"}
                       /\ "timeout" \notin Range(EndedHeld) /\ "completed" \notin Range(EndedHeld)
      ]_vars

\* ---------------------------------------------------------------------
\* Cancellation of a run_command invocation by its caller

\* the task running run_command is cancelled while it awaits the spawn,
\* communicate() or proc.wait(): CancelledError is a BaseException, so
\* neither "except asyncio.TimeoutError" nor "except Exception" runs; no
\* end_command, no audit entry, the subprocess is not killed
run_command_cancelled(i) ==
    /\ inv[i].pc \in {"spawn", "wait", "kill_wait"}
    /\ inv' = [inv EXCEPT ![i] = IdleInv]
    /\ last' = Outcome("run_command", inv[i].arg, "CancelledError", "", <<>>, <<>>)
    /\ UNCHANGED <<fs, now, events, tracker, procs, watcher, audited, hist, calls, budget, disk, probe, audit_log, log_events, sys_stderr, jwks_cache, metrics>>

RunCommandCancelled == \E i \in 1..MaxInv : run_command_cancelled(i)

CancelCalls == 3

InitCancel == InitWith(CancelCalls)

NextCancel ==
    \/ RunCommandCall(1..MaxInv, {"git status"})
    \/ RunCommandSpawned
    \/ RunCommandSpawnError
    \/ RunCommandCompleted({0}, {"ok\n"})
    \/ RunCommandTimeout
    \/ RunCommandReaped
    \/ RunCommandCancelled
    \/ Lapse

SpecCancel == InitCancel /\ [][NextCancel]_vars

\* the command ids of the run_command invocations in flight
InFlightIds == {inv[i].command_id : i \in {j \in 1..MaxInv : inv[j].pc # "idle"}}

\* C28: an ActiveCommand lives only while its run_command invocation is in
\* flight: every entry of active_commands belongs to an invocation that has
\* not ended, so active_commands is empty when no run_command is in flight
C28_ActiveOnlyInFlight == DOMAIN watcher.active_commands \subseteq InFlightIds

\* ---------------------------------------------------------------------
\* SpecWatch: one run_command invocation is run from the same state twice,
\* with the same command, the same behaviour of the subprocess and the same
\* passing of time, first with the watcher enabled (MCP_ENABLE_WATCHER=true),
\* then with the watcher disabled; the stderr of the process may be broken
\* ---------------------------------------------------------------------
WatchCalls == 2

\* what the subprocess does: it cannot be spawned, exits with 0 or 1, runs
\* into the timeout, or exits between the timeout and proc.kill()
SubprocessFates == {"spawn_error", "rc0", "rc1", "timeout", "timeout_exited"}

\* where in the invocation a rate window passes
LapsePoints == {"never", "idle", "spawn", "wait", "kill_wait"}

WatchCommands == {"git status", "pytest -q", "rm -rf /"}

Scripts == [command : WatchCommands, fate : SubprocessFates, lapse : LapsePoints]

NoScript == [command |-> "", fate |-> "", lapse |-> ""]

Script == IF probe.phase = "idle" THEN NoScript ELSE probe.script

\* the scripted invocation has been called / has ended
WatchCalled == IF probe.phase = "idle" THEN FALSE ELSE Len(hist) > Len(probe.saved.hist)
WatchEnded == WatchCalled /\ inv[1].pc = "idle"
WatchPoint == IF ~WatchCalled THEN "idle" ELSE IF WatchEnded THEN "ended" ELSE inv[1].pc

\* what run_command gave its caller and what it wrote to the audit log
WatchObserved ==
    [last |-> last, audit |-> AuditLines(fs), audited |-> audited, now |-> now,
     history |-> Len(watcher.command_history)]

\* the state is remembered and the script of the invocation is chosen
watch_arm(script) ==
    /\ probe.phase = "idle" /\ calls < budget /\ watcher.enabled
    /\ \A i \in 1..MaxInv : inv[i].pc = "idle"
    /\ probe' = [phase |-> "watched", saved |-> Snapshot, script |-> script]
    /\ UNCHANGED <<fs, now, events, tracker, watcher, inv, procs, audited, last, hist, calls, budget,
                   disk, audit_log, log_events, sys_stderr, jwks_cache, metrics>>

\* the invocation has ended with the watcher enabled: what it did is
\* recorded, the remembered state is put back with the watcher disabled
watch_rewind ==
    /\ probe.phase = "watched" /\ WatchEnded
    /\ probe' = [phase |-> "unwatched", saved |-> probe.saved, script |-> probe.script,
                 first |-> WatchObserved]
    /\ fs' = probe.saved.fs /\ now' = probe.saved.now /\ events' = probe.saved.events
    /\ tracker' = probe.saved.tracker
    /\ watcher' = [probe.saved.watcher EXCEPT !.enabled = FALSE]
    /\ inv' = probe.saved.inv /\ procs' = probe.saved.procs
    /\ audited' = probe.saved.audited /\ last' = probe.saved.last
    /\ hist' = probe.saved.hist /\ calls' = probe.saved.calls
    /\ UNCHANGED <<budget, disk, audit_log, log_events, sys_stderr, jwks_cache, metrics>>

\* the invocation has ended with the watcher disabled: the gateway goes on
\* from there with the watcher enabled
watch_settle ==
    /\ probe.phase = "unwatched" /\ WatchEnded
    /\ probe' = NoProbe
    /\ watcher' = [watcher EXCEPT !.enabled = TRUE]
    /\ UNCHANGED <<fs, now, events, tracker, inv, procs, audited, last, hist, calls,
                   budget, disk, audit_log, log_events, sys_stderr, jwks_cache, metrics>>

\* the reader of the gateway's stderr goes away
stderr_closed ==
    /\ sys_stderr = "open"
    /\ sys_stderr' = "broken"
    /\ UNCHANGED <<fs, now, events, tracker, watcher, inv, procs, audited, last, hist, calls,
                   budget, disk, probe, audit_log, log_events, jwks_cache, metrics>>

InitWatch == InitWith(WatchCalls)

NextWatch ==
    \/ probe.phase = "idle" /\ stderr_closed
    \/ \E script \in Scripts : watch_arm(script)
    \/ probe.phase # "idle" /\ ~WatchCalled /\ RunCommandCall({1}, {Script.command})
    \/ Script.fate # "spawn_error" /\ RunCommandSpawned
    \/ Script.fate = "spawn_error" /\ RunCommandSpawnError
    \/ Script.fate = "rc0" /\ RunCommandCompleted({0}, {"ok\n"})
    \/ Script.fate = "rc1" /\ RunCommandCompleted({1}, {"ok\n"})
    \/ Script.fate = "timeout" /\ RunCommandTimeout
    \/ Script.fate = "timeout_exited" /\ RunCommandTimeoutExited
    \/ RunCommandReaped
    \/ Script.lapse = WatchPoint /\ Lapse
    \/ watch_rewind
    \/ watch_settle

SpecWatch == InitWatch /\ [][NextWatch]_vars

\* the invocation has ended with the watcher disabled, after the same passing
\* of time as with the watcher enabled
WatchReplayed ==
    IF probe.phase = "unwatched" THEN WatchEnded /\ now = probe.first.now ELSE FALSE

\* C29: the watcher is observability-only: for every command and timeout,
\* run_command returns the same result or raises the same error, and writes
\* the same audit entries, with the watcher disabled as with it enabled
C29_WatcherObservabilityOnly ==
    WatchReplayed =>
        /\ last = probe.first.last
        /\ AuditLines(fs) = probe.first.audit
        /\ audited = probe.first.audited

\* ---------------------------------------------------------------------
\* SpecBudget: the content-returning tools, called one after another on a
\* context budget that starts empty
\* ---------------------------------------------------------------------
BudgetCalls == 3

InitBudget == InitWith(BudgetCalls)

NextBudget ==
    \/ ReadFileCall({"README.md"}, {FALSE})
    \/ ListFilesCall({"."}, {"*"}, {2000}, {FALSE}, {"asc"})
    \/ SearchCodeCall({"Hello"}, {"*"}, {200}, {"asc"})
    \/ RunCommandCall({1}, {"git status"})
    \/ RunCommandSpawned
    \/ RunCommandCompleted({0}, {"ok\n"})
    \/ Lapse

SpecBudget == InitBudget /\ [][NextBudget]_vars

\* a call of tool op returns to its caller in this step
Returns(op) ==
    /\ last'.op = op /\ last'.exc = "none"
    /\ IF op = "run_command"
       THEN \E i \in 1..MaxInv : inv[i].pc = "wait" /\ inv'[i].pc = "idle"
       ELSE CallStep(op)

\* the size of the text the call returns
ReturnedChars ==
    IF last'.op = "read_file" THEN Len(last'.ret)
    ELSE IF last'.op = "list_files" THEN Len(JoinStr("\n", last'.ret))
    ELSE IF last'.op = "search_code" THEN Len(HitsJson(last'.ret))
    ELSE Len(last'.ret.stdout) + Len(last'.ret.stderr)

\* the call does not trigger summarization: the budget is below the
\* threshold before the call and with the returned text added
NotSummarized ==
    /\ ~should_summarize(tracker.current_chars)
    /\ ~should_summarize(tracker.current_chars + ReturnedChars)
    /\ tracker'.summaries = tracker.summaries

\* the budget grows by the size of the returned text
BudgetGrows == tracker'.current_chars = tracker.current_chars + ReturnedChars

\* C30: every content-returning operation (read_file, list_files,
\* search_code, run_command) updates the shared context budget on success:
\* when it does not trigger summarization, current_chars grows by the size
\* of the text it returns
C30_BudgetUpdated ==
    [][\A op \in {"read_file", "list_files", "search_code", "run_command"} :
          (Returns(op) /\ NotSummarized) => BudgetGrows]_vars

\* ---------------------------------------------------------------------
\* The context counter after a summary
\* ---------------------------------------------------------------------
\* the call of tool op that returns in this step has emitted a summary:
\* read_file has recorded one, list_files has reached the threshold with
\* its listing added, search_code was at the threshold and has hits
EmitsSummary(op) ==
    /\ Returns(op)
    /\ IF op = "read_file" THEN tracker'.summaries # tracker.summaries
       ELSE IF op = "list_files"
       THEN should_summarize(tracker.current_chars + Len(JoinStr("\n", last'.ret)))
       ELSE should_summarize(tracker.current_chars) /\ last'.ret # <<>>

\* the size of the summary the call has emitted
SummaryChars(op) ==
    IF op = "read_file" THEN tracker'.summaries[Len(tracker'.summaries)].summary_chars
    ELSE IF op = "list_files"
    THEN Len(ListSummary(last'.ret, tracker.current_chars + Len(JoinStr("\n", last'.ret))))
    ELSE Len(HitsJson(last'.ret))

\* C31: immediately after an operation emits a summary (read_file through
\* _auto_summarize_if_needed, the summarization branches of list_files and
\* search_code) the context counter has been reset and equals the size of
\* the emitted summary, and should_summarize() is false
C31_ResetAfterSummary ==
    [][\A op \in {"read_file", "list_files", "search_code"} :
          EmitsSummary(op) =>
              /\ tracker'.current_chars = SummaryChars(op)
              /\ ~should_summarize(tracker'.current_chars)]_vars

\* ---------------------------------------------------------------------
\* SpecQuota: the rate-limited tools called up to and past their quota, with
\* arguments that pass and arguments that fail the checks after the limiter
\* ---------------------------------------------------------------------
QuotaCalls == 3

InitQuota == InitWith(QuotaCalls)

NextQuota ==
    \/ ReadFileCall({"README.md", "../out/secret", "sub/.git/config"}, {FALSE})
    \/ WriteFileCall({"notes.txt", "../out/x"}, {"hello"}, {"replace"}, {FALSE}, {TRUE})
    \/ RunCommandCall({1}, {"git status", "rm -rf /"})
    \/ RunCommandSpawned
    \/ RunCommandCompleted({0}, {"ok\n"})
    \/ Lapse

SpecQuota == InitQuota /\ [][NextQuota]_vars

\* the class of op is at quota: max_ops of its events are less than a window old
AtQuota(op) ==
    Len(Pruned(events[LimiterOf(op)], now, RATE_LIMITS[LimiterOf(op)][2]))
        >= RATE_LIMITS[LimiterOf(op)][1]

RateError(op) ==
    CASE op = "read_file"   -> "Rate limit exceeded for reads"
      [] op = "write_file"  -> "Rate limit exceeded for writes"
      [] op = "run_command" -> "Rate limit exceeded for commands"

\* C32: the rate-limiter check is the first step of every rate-limited
\* operation: a call made while its class is at quota fails with the
\* rate-limit error whatever its arguments are, and has no other effect: no
\* file is read or written, no process is spawned, nothing is audited, the
\* context counter and the watcher are unchanged
C32_LimiterFirst ==
    [][\A op \in {"read_file", "write_file", "run_command"} :
          (CallStep(op) /\ AtQuota(op)) =>
              /\ last' = Outcome(op, NewCall.arg, "RuntimeError", RateError(op), <<>>, <<>>)
              /\ fs' = fs /\ procs' = procs /\ tracker' = tracker
              /\ inv' = inv /\ watcher' = watcher /\ audited' = audited]_vars

\* the calls denied so far
DeniedCalls == {k \in 1..Len(hist) : ~hist[k].admitted}

\* a write to a path that escapes the workspace was denied by the limiter
C32_Witness ==
    /\ last.op = "write_file" /\ last.arg.path = "../out/x"
    /\ last.exc = "RuntimeError" /\ last.err = RateError("write_file")
    /\ Len(hist) \in DeniedCalls

\* ---------------------------------------------------------------------
\* The pager flag of version-control commands
\* ---------------------------------------------------------------------
\* the command is a git command: its first word is "git"
IsGitCommand(command) == split1(command) # <<>> /\ split1(command)[1] = "git"

\* invocation i is given its subprocess in this step
Spawns(i) == inv[i].pc = "spawn" /\ inv'[i].pc = "wait"

\* C33: every git command that run_command accepts and spawns is executed
\* with --no-pager in the command line handed to the shell, whatever
\* whitespace stands between "git" and its subcommand; the audit entry of the
\* invocation records the caller's original command text
C33_NoPagerInjected ==
    [][\A i \in 1..MaxInv :
          /\ (Spawns(i) /\ IsGitCommand(inv[i].original_command)) =>
                 Contains(procs'[inv'[i].proc].line, "--no-pager")
          /\ (inv[i].pc # "idle" /\ inv'[i].pc = "idle" /\ audited' # audited) =>
                 audited'[Len(audited')].args
                     = << <<"command", JsonStr(inv[i].original_command)>> >>]_vars

\* ---------------------------------------------------------------------
\* Domain errors on the HTTP bindings
\* ---------------------------------------------------------------------
\* the handler of an authenticated request has raised a domain error
DomainErrorRaised == last.op \in tool_handlers /\ last.exc # "none"

\* C34: on both HTTP bindings a tool call of an authenticated request that
\* fails with a domain error is answered with the structured body
\* {ok: false, error} and not with an HTTP error status; only authentication
\* and authorization failures are answered with 401 or 403
C34_DomainErrorsStructured ==
    /\ DomainErrorRaised =>
           HttpResponse = [status |-> 200, ok |-> FALSE, detail |-> last.err]
    /\ (last.op \in tool_handlers \cup {"http"} /\ HttpResponse.status \in {401, 403}) =>
           last.op = "http" /\ ~hist[Len(hist)].admitted

\* ---------------------------------------------------------------------
\* SpecOrigin: requests on the OAuth binding from allowed origins, from
\* other origins and from an origin that begins with an allowed one
\* ---------------------------------------------------------------------
OriginCalls == 4

\* the value of the Origin header or, in its absence, of the Referer header
OriginHeaders ==
    {"https://chatgpt.com", "https://chatgpt.com/c/1", "https://chatgpt.com.evil.example",
     "https://evil.example", ""}

InitOrigin == InitWith(OriginCalls)

NextOrigin ==
    \/ \E origin \in OriginHeaders,
          authorization \in {<<>>, <<"Bearer good">>, <<"Bearer forged">>} :
           call_tool(origin, authorization, TRUE, "read_file", [path |-> "sub/.git/config"])
    \/ tool_handler

SpecOrigin == InitOrigin /\ [][NextOrigin]_vars

\* scheme://host[:port] of an Origin or Referer value
OriginOf(h) ==
    LET slashes == {i \in (Len("https://") + 1)..Len(h) : CharAt(h, i) = "/"}
    IN  IF slashes = {} THEN h
        ELSE SubSeq(h, 1, (CHOOSE i \in slashes : \A j \in slashes : i <= j) - 1)

\* the OAuth requests made so far whose origin is not an allowed origin
ForeignRequests ==
    {k \in 1..Len(hist) : /\ hist[k].op = "http"
                          /\ hist[k].arg.binding = "oauth"
                          /\ OriginOf(hist[k].arg.origin) \notin ALLOWED_ORIGINS}

\* C35: on the OAuth binding with the origin check enabled a request whose
\* Origin (or, absent that, Referer) is not one of the configured allowed
\* origins is rejected with 403 before the bearer token is examined and
\* before any tool runs, also when the origin only begins with an allowed
\* origin, as https://chatgpt.com.evil.example does
C35_ForeignOriginRejected ==
    /\ (last.op = "http" /\ Len(hist) \in ForeignRequests) =>
           last.ret.status = 403 /\ ~last.ret.pending
    /\ last.op \in tool_handlers => (Len(hist) - 1) \notin ForeignRequests

\* ---------------------------------------------------------------------
\* The JWKS cache of the OAuth binding (_get_jwks)
\* ---------------------------------------------------------------------
JWKS_MAX_AGE == 3600

\* everything but now and the state of _get_jwks
NotJwks == <<fs, events, tracker, watcher, inv, procs, audited, budget, disk, probe,
             audit_log, log_events, sys_stderr, metrics>>

\* a call of _get_jwks by coroutine t is counted
JwksCalled(t) ==
    /\ calls < budget
    /\ calls' = calls + 1
    /\ hist' = Append(hist, [op |-> "_get_jwks", arg |-> [task |-> t], t |-> now, admitted |-> TRUE])

\* _get_jwks up to its first await: the cached document is returned, or the
\* request to AUTH_JWKS_URL is sent (lines 47-52)
_get_jwks(t) ==
    /\ jwks_cache.tasks[t].pc = "idle"
    /\ JwksCalled(t)
    /\ IF jwks_cache.JWKS # 0 /\ now - jwks_cache.JWKS_TS < JWKS_MAX_AGE
       THEN /\ last' = Outcome("_get_jwks", [task |-> t], "none", "",
                               [doc |-> jwks_cache.JWKS, fetched |-> FALSE], <<>>)
            /\ UNCHANGED jwks_cache
       ELSE /\ jwks_cache' = [jwks_cache EXCEPT !.tasks[t] = [pc |-> "fetching", now |-> now],
                                                !.fetches = @ + 1]
            /\ UNCHANGED last
    /\ UNCHANGED <<now, NotJwks>>

\* the response arrives with a success status: the document and the time
\* read before the request are stored (lines 55-57)
_get_jwks_fetched(t) ==
    /\ jwks_cache.tasks[t].pc = "fetching"
    /\ jwks_cache' = [jwks_cache EXCEPT !.JWKS = jwks_cache.fetches,
                                        !.JWKS_TS = jwks_cache.tasks[t].now,
                                        !.downloaded_at = now, !.tasks[t] = [pc |-> "idle"]]
    /\ last' = Outcome("_get_jwks", [task |-> t], "none", "",
                       [doc |-> jwks_cache.fetches, fetched |-> TRUE], <<>>)
    /\ UNCHANGED <<now, hist, calls, NotJwks>>

\* a failed fetch that drops the cached document
_get_jwks_failed_clearing(t) ==
    /\ jwks_cache.tasks[t].pc = "fetching"
    /\ jwks_cache' = [jwks_cache EXCEPT !.JWKS = 0, !.JWKS_TS = 0, !.tasks[t] = [pc |-> "idle"]]
    /\ last' = Outcome("_get_jwks", [task |-> t], "HTTPStatusError", "", <<>>, <<>>)
    /\ UNCHANGED <<now, hist, calls, NotJwks>>

\* the request fails or raise_for_status() raises (lines 53-54)
_get_jwks_failed(t) ==
    /\ jwks_cache.tasks[t].pc = "fetching"
    /\ jwks_cache' = [jwks_cache EXCEPT !.tasks[t] = [pc |-> "idle"]]
    /\ last' = Outcome("_get_jwks", [task |-> t], "HTTPStatusError", "", <<>>, <<>>)
    /\ UNCHANGED <<now, hist, calls, NotJwks>>

\* d seconds pass
Elapse(d, limit) ==
    /\ now + d <= limit
    /\ now' = now + d
    /\ UNCHANGED <<last, hist, calls, jwks_cache, NotJwks>>

JwksCalls == 4
JwksMaxTime == 7200

InitJwks == InitWith(JwksCalls)

NextJwks ==
    \/ \E t \in 1..2 : _get_jwks(t)
    \/ \E t \in 1..2 : _get_jwks_fetched(t)
    \/ \E t \in 1..2 : _get_jwks_failed(t)
    \/ \E d \in {JWKS_MAX_AGE - 1, JWKS_MAX_AGE} : Elapse(d, JwksMaxTime)

SpecJwks == InitJwks /\ [][NextJwks]_vars

\* coroutine t calls _get_jwks in this step
JwksCallStep(t) == jwks_cache.tasks[t].pc = "idle" /\ CallStep("_get_jwks") /\ NewCall.arg.task = t

\* a fetch of coroutine t ends in this step
JwksFetchEnds(t) == jwks_cache.tasks[t].pc = "fetching" /\ jwks_cache'.tasks[t].pc = "idle"

\* C36: the JWKS used to verify a token is never older than one hour:
\* _get_jwks returns the cached key set without a network fetch while less
\* than 3600 seconds have passed since the last successful fetch, refetches
\* once that age is reached, and a failed fetch raises without replacing the
\* cached key set or its timestamp
C36_JwksCache ==
    [][\A t \in 1..2 :
          /\ (JwksCallStep(t) /\ jwks_cache.JWKS # 0 /\ now - jwks_cache.JWKS_TS < JWKS_MAX_AGE) =>
                 /\ last'.ret = [doc |-> jwks_cache.JWKS, fetched |-> FALSE]
                 /\ jwks_cache' = jwks_cache
                 /\ now - jwks_cache.downloaded_at < JWKS_MAX_AGE
          /\ (JwksCallStep(t) /\ (jwks_cache.JWKS = 0 \/ now - jwks_cache.JWKS_TS >= JWKS_MAX_AGE)) =>
                 /\ jwks_cache'.tasks[t].pc = "fetching"
                 /\ jwks_cache'.fetches = jwks_cache.fetches + 1
                 /\ last' = last
          /\ (JwksFetchEnds(t) /\ last'.exc = "none") =>
                 /\ last'.ret.fetched /\ last'.ret.doc = jwks_cache'.JWKS
                 /\ jwks_cache'.JWKS_TS <= now
          /\ (JwksFetchEnds(t) /\ last'.exc # "none") =>
                 /\ jwks_cache'.JWKS = jwks_cache.JWKS
                 /\ jwks_cache'.JWKS_TS = jwks_cache.JWKS_TS]_vars

\* a key set fetched earlier was served from the cache within the hour, and a
\* failed refetch after the hour has left it in place
C36_Witness ==
    /\ last.op = "_get_jwks" /\ last.exc = "HTTPStatusError"
    /\ jwks_cache.JWKS # 0
    /\ now - jwks_cache.JWKS_TS >= JWKS_MAX_AGE
    /\ \E k \in 1..Len(hist) : hist[k].t > jwks_cache.JWKS_TS
                               /\ hist[k].t - jwks_cache.JWKS_TS < JWKS_MAX_AGE

\* ------------------------------------------------------------------------
\* Interleaved operations on one gateway: two run_command invocations that
\* may be in flight at once, the other tools called between their steps
\* ------------------------------------------------------------------------
InterleaveCalls == 4

InitInterleave == InitWith(InterleaveCalls)

NextInterleave ==
    \/ ReadFileCall({"README.md"}, {FALSE})
    \/ RunCommandCall({1, 2}, {"git status"})
    \/ RunCommandSpawned
    \/ RunCommandCompleted({0}, {"ok\n"})
    \/ reset_context
    \/ Advance(2, MaxTime)

SpecInterleave == InitInterleave /\ [][NextInterleave]_vars

\* the admitted calls of the class of call k, up to k, less than W before it
AdmittedNear(k) ==
    {j \in 1..k :
        /\ hist[j].op \in Tools
        /\ ClassOf(hist[j].op) = ClassOf(hist[k].op)
        /\ hist[j].admitted
        /\ hist[k].t - hist[j].t < RateWindow}

\* those of them that no reset_context separates from call k
AdmittedSinceReset(k) ==
    {j \in AdmittedNear(k) : \A m \in j..k : hist[m].op # "reset_context"}

\* this step runs allow() of the limiter of op from start to end
AllowRuns(op) ==
    LET rl == RateCheck(events, op, now)
    IN  /\ NewCall.admitted = rl.ok
        /\ events'[LimiterOf(op)] = rl.events
        /\ \A c \in Classes \ {LimiterOf(op)} : events'[c] = events[c]

\* this step is a whole call of op: it starts and yields its outcome
Completes(op) ==
    /\ last'.op = op /\ last'.arg = NewCall.arg
    /\ inv' = inv /\ procs' = procs

\* some run_command is suspended in this state
Suspended == \E i \in 1..MaxInv : inv[i].pc # "idle"

\* C37 (as stated): whatever the interleaving, the admitted calls of one
\* class within any span shorter than W number at most max_ops; every tool
\* call runs allow() whole within its own step, and every call of a tool
\* other than run_command ends in the step that starts it
C37_Original ==
    [][/\ \A k \in 1..Len(hist') :
              (hist'[k].op \in Tools /\ hist'[k].admitted) =>
                  Cardinality({j \in 1..k :
                      /\ hist'[j].op \in Tools
                      /\ ClassOf(hist'[j].op) = ClassOf(hist'[k].op)
                      /\ hist'[j].admitted
                      /\ hist'[k].t - hist'[j].t < RateWindow}) <= QuotaOf(ClassOf(hist'[k].op))
       /\ \A op \in Tools : CallStep(op) => AllowRuns(op)
       /\ \A op \in Tools \ {"run_command"} : CallStep(op) => Completes(op)]_vars

\* C37: whatever the interleaving, the calls of one class admitted since
\* the last reset_context within any span shorter than W number at most
\* max_ops; every tool call runs allow() whole within its own step, and
\* every call of a tool other than run_command ends in the step that starts
\* it, also while a run_command is suspended
C37_QuotaUnderInterleaving ==
    [][/\ \A k \in 1..Len(hist') :
              (hist'[k].op \in Tools /\ hist'[k].admitted) =>
                  Cardinality({j \in 1..k :
                      /\ hist'[j].op \in Tools
                      /\ ClassOf(hist'[j].op) = ClassOf(hist'[k].op)
                      /\ hist'[j].admitted
                      /\ hist'[k].t - hist'[j].t < RateWindow
                      /\ \A m \in j..k : hist'[m].op # "reset_context"})
                    <= QuotaOf(ClassOf(hist'[k].op))
       /\ \A op \in Tools : CallStep(op) => AllowRuns(op)
       /\ \A op \in Tools \ {"run_command"} : CallStep(op) => Completes(op)]_vars

\* while a run_command was suspended a read was admitted and completed and
\* a second run_command was refused at quota; later both slots were in
\* flight at once
C37_Witness ==
    /\ \A i \in 1..MaxInv : inv[i].pc # "idle"
    /\ \E k, m \in 1..Len(hist) :
          /\ k < m
          /\ hist[k].op = "run_command" /\ hist[k].admitted
          /\ hist[m].op = "run_command" /\ hist[m].admitted
          /\ hist[m].t - hist[k].t >= RateWindow
          /\ \E r \in (k + 1)..(m - 1) : hist[r].op = "read_file" /\ hist[r].admitted
          /\ \E d \in (k + 1)..(m - 1) : hist[d].op = "run_command" /\ ~hist[d].admitted
          /\ \A r \in k..m : hist[r].op # "reset_context"

\* ------------------------------------------------------------------------
\* OAuth binding: call_tool coroutines that overlap, and _METRICS
\* (http_mcp_oauth_bridge.py, lines 126-148)
\* ------------------------------------------------------------------------
NotMetrics == <<fs, events, tracker, watcher, inv, procs, audited, budget, disk, probe,
                audit_log, log_events, sys_stderr, jwks_cache>>

\* a request POST /mcp/tool/{name} handled by coroutine t is counted
ToolCalled(t, req, passed) ==
    /\ calls < budget
    /\ calls' = calls + 1
    /\ hist' = Append(hist, [op |-> "call_tool", arg |-> req, t |-> now, admitted |-> passed])

\* the other coroutines suspended in their tool while coroutine t ends
OthersSuspended(t) == {u \in 1..MaxTasks \ {t} : metrics.tasks[u].pc = "fn"}

\* the request up to `await fn(**body.params)`: the require_oauth dependency
\* answers 401 or 403, an unknown name answers 404, otherwise t0 is taken and
\* the tool starts
call_tool_request(t, origin, authorization, name) ==
    LET req == [binding |-> "oauth", origin |-> origin, authorization |-> authorization,
                jwks |-> TRUE, tool |-> name, arguments |-> <<>>]
        auth == require_oauth(req)
    IN  /\ metrics.tasks[t].pc = "idle"
        /\ ToolCalled(t, req, auth.status = 200)
        /\ IF auth.status # 200
           THEN /\ last' = Outcome("call_tool", req, "HTTPException", auth.detail,
                                   [status |-> auth.status, ok |-> FALSE], <<>>)
                /\ UNCHANGED metrics
           ELSE IF name \notin _TOOL_MAP
           THEN /\ last' = Outcome("call_tool", req, "HTTPException", "Unknown tool: " \o name,
                                   [status |-> 404, ok |-> FALSE], <<>>)
                /\ UNCHANGED metrics
           ELSE /\ metrics' = [metrics EXCEPT !.tasks[t] = [pc |-> "fn", req |-> req, t0 |-> now]]
                /\ UNCHANGED last
        /\ UNCHANGED <<now, NotMetrics>>

\* fn raises and only the error counter is incremented
call_tool_raised_half_counted(t) ==
    LET dt == (now - metrics.tasks[t].t0) * 1000
    IN  /\ metrics.tasks[t].pc = "fn"
        /\ metrics' = [metrics EXCEPT !.tool_error_total = @ + 1,
                                      !.tool_duration_ms_sum = @ + dt,
                                      !.overlapped = @ + Cardinality(OthersSuspended(t)),
                                      !.tasks[t] = IdleTask]
        /\ last' = Outcome("call_tool", metrics.tasks[t].req, "none", "",
                           [status |-> 200, ok |-> FALSE], <<>>)
        /\ UNCHANGED <<now, hist, calls, NotMetrics>>

\* fn returns: lines 135-139
call_tool_returned(t) ==
    LET dt == (now - metrics.tasks[t].t0) * 1000
    IN  /\ metrics.tasks[t].pc = "fn"
        /\ metrics' = [metrics EXCEPT !.tool_calls_total = @ + 1,
                                      !.tool_ok_total = @ + 1,
                                      !.tool_duration_ms_sum = @ + dt,
                                      !.overlapped = @ + Cardinality(OthersSuspended(t)),
                                      !.tasks[t] = IdleTask]
        /\ last' = Outcome("call_tool", metrics.tasks[t].req, "none", "",
                           [status |-> 200, ok |-> TRUE], <<>>)
        /\ UNCHANGED <<now, hist, calls, NotMetrics>>

\* fn raises an Exception: lines 140-145
call_tool_raised(t) ==
    LET dt == (now - metrics.tasks[t].t0) * 1000
    IN  /\ metrics.tasks[t].pc = "fn"
        /\ metrics' = [metrics EXCEPT !.tool_calls_total = @ + 1,
                                      !.tool_error_total = @ + 1,
                                      !.tool_duration_ms_sum = @ + dt,
                                      !.overlapped = @ + Cardinality(OthersSuspended(t)),
                                      !.tasks[t] = IdleTask]
        /\ last' = Outcome("call_tool", metrics.tasks[t].req, "none", "",
                           [status |-> 200, ok |-> FALSE], <<>>)
        /\ UNCHANGED <<now, hist, calls, NotMetrics>>

\* the coroutine is cancelled while it awaits fn: CancelledError is not an
\* Exception and leaves call_tool through neither branch
call_tool_cancelled(t) ==
    /\ metrics.tasks[t].pc = "fn"
    /\ metrics' = [metrics EXCEPT !.tasks[t] = IdleTask]
    /\ last' = Outcome("call_tool", metrics.tasks[t].req, "CancelledError", "",
                       [status |-> 0, ok |-> FALSE], <<>>)
    /\ UNCHANGED <<now, hist, calls, NotMetrics>>

MetricsCalls == 4

InitMetrics == InitWith(MetricsCalls)

\* the coroutine that serves the next request: the first one that is free
FreeTask(t) == metrics.tasks[t].pc = "idle" /\ \A u \in 1..(t - 1) : metrics.tasks[u].pc # "idle"

NextMetrics ==
    \/ \E t \in 1..MaxTasks, authorization \in {<<>>, <<"Bearer good">>},
          name \in {"read_file", "delete_file"} :
           FreeTask(t) /\ call_tool_request(t, "https://chatgpt.com", authorization, name)
    \/ \E t \in 1..MaxTasks : call_tool_returned(t)
    \/ \E t \in 1..MaxTasks : call_tool_raised(t)
    \/ \E t \in 1..MaxTasks : call_tool_cancelled(t)
    \/ Lapse

SpecMetrics == InitMetrics /\ [][NextMetrics]_vars

\* the four counters of _METRICS
Counters(m) == <<m.tool_calls_total, m.tool_ok_total, m.tool_error_total, m.tool_duration_ms_sum>>

\* this step ends a call of a known tool by coroutine t with a ToolResult
ToolCallCompletes(t) ==
    /\ metrics.tasks[t].pc = "fn" /\ metrics'.tasks[t].pc = "idle"
    /\ last'.op = "call_tool" /\ last'.ret.status = 200

\* this step is a request that require_oauth refuses or that names no tool
ToolCallRefused ==
    /\ CallStep("call_tool")
    /\ (~NewCall.admitted \/ NewCall.arg.tool \notin _TOOL_MAP)

\* C38: on the OAuth binding tool_calls_total = tool_ok_total +
\* tool_error_total after every step, also when calls overlap; a call of a
\* known tool that ends with a result adds exactly 1 to tool_calls_total
\* and 1 to the counter of its outcome; no counter decreases; a request for
\* an unknown tool and a request that is not authenticated change no counter
C38_MetricsConsistent ==
    [][/\ metrics'.tool_calls_total = metrics'.tool_ok_total + metrics'.tool_error_total
       /\ \A k \in 1..4 : Counters(metrics')[k] >= Counters(metrics)[k]
       /\ \A t \in 1..MaxTasks :
             ToolCallCompletes(t) =>
                 /\ metrics'.tool_calls_total = metrics.tool_calls_total + 1
                 /\ IF last'.ret.ok
                    THEN /\ metrics'.tool_ok_total = metrics.tool_ok_total + 1
                         /\ metrics'.tool_error_total = metrics.tool_error_total
                    ELSE /\ metrics'.tool_error_total = metrics.tool_error_total + 1
                         /\ metrics'.tool_ok_total = metrics.tool_ok_total
       /\ ToolCallRefused => Counters(metrics') = Counters(metrics)]_vars

\* two calls overlapped, one returned and one raised, and a request without
\* a token and an authenticated request for an unknown tool were answered
C38_Witness ==
    /\ metrics.tool_calls_total = 2
    /\ metrics.tool_ok_total = 1
    /\ metrics.tool_error_total = 1
    /\ metrics.overlapped >= 1
    /\ \E k \in 1..Len(hist) : hist[k].op = "call_tool" /\ ~hist[k].admitted
    /\ \E k \in 1..Len(hist) :
          hist[k].op = "call_tool" /\ hist[k].admitted /\ hist[k].arg.tool \notin _TOOL_MAP

\* the target of the write_file call this step makes, and its parent
WriteTarget == WORKSPACE_DIR \o PathParts(NewCall.arg.path)

\* this step is an admitted write_file that is to be applied
AppliesWrite ==
    CallStep("write_file") /\ NewCall.admitted /\ ~NewCall.arg.require_confirmation

\* the directories of a filesystem
Dirs(F) == {p \in DOMAIN F : F[p].kind = "dir"}

\* C39 (as stated): an applied write_file with create_dirs=false writes the
\* file when the parent directory of the target exists (a create-mode write
\* of an existing file apart), and fails and creates no directory when the
\* parent is missing; with create_dirs=true a missing parent is created
C39_CreateDirsHonoured ==
    [][AppliesWrite =>
          LET parent == Parent(WriteTarget)
          IN  /\ (/\ ~NewCall.arg.create_dirs /\ parent \in Dirs(fs)
                  /\ ~CreateRefused(NewCall.arg.mode, WriteTarget \in DOMAIN fs)) =>
                     /\ last'.exc = "none"
                     /\ WriteTarget \in DOMAIN fs' /\ fs'[WriteTarget].kind = "file"
              /\ (~NewCall.arg.create_dirs /\ parent \notin DOMAIN fs) =>
                     /\ last'.exc # "none"
                     /\ Dirs(fs') = Dirs(fs)
              /\ (NewCall.arg.create_dirs /\ parent \notin DOMAIN fs) =>
                     parent \in Dirs(fs')]_vars

\* this step ends the run_command invocation of slot i, which had passed
\* the whitelist and was in flight
InvocationEnds(i) == inv[i].pc # "idle" /\ inv'[i].pc = "idle"

\* C40 (as stated): the end of every run_command invocation that passed
\* validation adds exactly one record, that of its command, to
\* command_history, also when invocations overlap and start within the same
\* millisecond; the history never holds more than 50 records
C40_OneRecordPerInvocation ==
    [][/\ \A i \in 1..MaxInv :
             InvocationEnds(i) =>
                 /\ Len(watcher'.command_history) =
                        IF Len(watcher.command_history) < HISTORY_MAXLEN
                        THEN Len(watcher.command_history) + 1
                        ELSE HISTORY_MAXLEN
                 /\ watcher'.command_history[Len(watcher'.command_history)].command
                        = inv[i].original_command
       /\ Len(watcher'.command_history) <= HISTORY_MAXLEN]_vars

============================================================================
